---- MODULE Spec2Model ----
(***************************************************************************)
(* Model of logic/auto_measurement_logic.py (class AutoMeasurementLogic    *)
(* and class NV): the single-threaded orchestrator that sequences pulsed   *)
(* experiments on registered NV targets, polls the pulse, scanner and      *)
(* optimizer subsystems, and interleaves refocus cycles.                   *)
(*                                                                         *)
(* Time is an integer clock `now` in units of 0.1 s. time.sleep(d)         *)
(* advances the clock by exactly d; every other statement takes no time.   *)
(* The collaborators (pulsedmasterlogic, confocallogic, optimizerlogic)    *)
(* are not part of the modelled file: they are modelled from the interface *)
(* of spec.md section 6 as asynchronous subsystems that complete each      *)
(* accepted request at a moment of their own choosing.                     *)
(***************************************************************************)
EXTENDS Integers, Sequences, FiniteSets, TLC

(* ------------------------------ bounds --------------------------------- *)
\* most poll sleeps (a wait loop finding its condition not yet met) modelled in
\* one run of the entry method, over all its wait loops together
MaxPolls == 1
\* largest recipe runtime drawn for a run, in clock units
MaxRuntime == 12
\* most registry calls (add_nv, remove_nv, shifts, NV accessors) in one session
MaxOps == 3

(* ------------------------- program constants --------------------------- *)
\* time.sleep(0.5) of the accumulation loop
TickSleep == 5
\* time.sleep(0.2) of the status polls
PollSleep == 2
\* time.sleep(0.1) while the optimizer has not started
OptPollSleep == 1
\* time.sleep(2) after the optimizer finished
RefocusSettle == 20
\* time.sleep(3) after toggling the pulse generator
PulserSettle == 30
\* time.sleep(1) after the move request
MoveSettle == 10
\* time.sleep(1) while the resonance sweep is running
OdmrPollSleep == 10
\* time.sleep(1) after the resonance sweep finished
OdmrSettle == 10

(* ------------------------------ values --------------------------------- *)
None == <<>>
Some(v) == <<v>>

\* the fitted frequency stored where its inverse belongs
ReciprocalForgotten(f) == <<f, 1>>

\* 1/f as an exact rational <<numerator, denominator>>
Reciprocal(f) == <<1, f>>

Vec3Add(a, b) == <<a[1] + b[1], a[2] + b[2], a[3] + b[3]>>

ZeroShift == <<0, 0, 0>>

\* NV.__init__
NewNV(anchor, shift, label, cal) ==
    [anchor |-> anchor, shift |-> shift, label |-> label,
     odmr_freq |-> cal.odmr_freq, rabi_period |-> cal.rabi_period,
     t2 |-> cal.t2, t1 |-> cal.t1]

NoCalibration == [odmr_freq |-> None, rabi_period |-> None, t2 |-> None, t1 |-> None]

\* NV.position
Position(nv) == Vec3Add(nv.anchor, nv.shift)

PulsedTypes == {"rabi", "hahnecho", "xy8", "xy8_random", "pulsedodmr"}

\* the measure methods: the pulsed ones with a recipe StatusVar, measure_odmr and
\* measure_t1_exponential
MeasureTypes == PulsedTypes \cup {"odmr", "t1_exponential"}

\* the StatusVar each measure method reads its parameters from
RecipeName(e) ==
    CASE e = "rabi" -> "rabi"
      [] e = "hahnecho" -> "hahnecho"
      [] e = "xy8" -> "xy8"
      [] e = "xy8_random" -> "xy8"
      [] e = "pulsedodmr" -> "pulsedODMR"
      [] e = "odmr" -> "odmr"

\* the StatusVar whose keys filter the caller's overrides
FilterName(e) ==
    CASE e = "rabi" -> "rabi"
      [] e = "hahnecho" -> "hahnecho"
      [] e = "xy8" -> "xy8"
      [] e = "xy8_random" -> "xy8"
      [] e = "pulsedodmr" -> "odmr"
      [] e = "odmr" -> "odmr"

\* first argument of generate_predefined_sequence
GeneratorMethod(e) ==
    CASE e = "rabi" -> "rabi"
      [] e = "hahnecho" -> "hahnecho"
      [] e = "xy8" -> "xy8_tau"
      [] e = "xy8_random" -> "xy8_random_tau"
      [] e = "pulsedodmr" -> "pulsedodmr"

\* param_dict['name'], the ensemble that is sampled and loaded
EnsembleName(e) ==
    CASE e = "rabi" -> "rabi"
      [] e = "hahnecho" -> "hahn_echo"
      [] e = "xy8" -> "xy8"
      [] e = "xy8_random" -> "xy8"
      [] e = "pulsedodmr" -> "pulsedODMR"

\* the shared generation parameters each measure method copies from kwargs
SharedKeys(e) ==
    CASE e = "rabi" -> {"amplitude"}
      [] e = "hahnecho" -> {"amplitude", "rabi_period"}
      [] e = "xy8" -> {"amplitude", "rabi_period"}
      [] e = "xy8_random" -> {"amplitude", "rabi_period"}
      [] e = "pulsedodmr" -> {"rabi_period"}

\* with_error argument of save_measurement_data
WithError(e) == e \in {"hahnecho", "pulsedodmr"}

TagPrefix(e) ==
    CASE e = "rabi" -> "autoRabi"
      [] e = "hahnecho" -> "autoHahnEcho"
      [] e = "xy8" -> "autoXY8"
      [] e = "xy8_random" -> "autoXY8Random"
      [] e = "pulsedodmr" -> "autoPulsedODMR"
      [] e = "odmr" -> "autoODMR"
      [] e = "t1_exponential" -> "autoT1_exp"

\* savetag: '<prefix>_<label>' if label else '<prefix>'; the XY8 types format
\* '<prefix>-<order>_<label>' when a label is given
SaveTag(e, lbl, order) ==
    [prefix |-> TagPrefix(e),
     order |-> IF e \in {"xy8", "xy8_random"} /\ lbl # "" THEN Some(order) ELSE None,
     label |-> IF lbl # "" THEN Some(lbl) ELSE None]

\* for param in kwargs.keys(): if param in filter: target[param] = kwargs[param]
MergeOverrides(target, filter, kw) ==
    [k \in (DOMAIN target) \cup ((DOMAIN kw) \cap (DOMAIN filter)) |->
        IF k \in DOMAIN kw /\ k \in DOMAIN filter THEN kw[k] ELSE target[k]]

NoKwargs == [k \in {} |-> 0]

\* str(index): the decimal digits of the integer, with a leading '-' when negative
IntToStr(i) == ToString(i)

\* nv_list[index] with Python's negative indexing; 0 when the index is out of range
PyIndex(list, i) ==
    IF 0 <= i /\ i < Len(list) THEN i + 1
    ELSE IF i < 0 /\ -i <= Len(list) THEN Len(list) + i + 1
    ELSE 0

\* first position (1-based) of the NV with this label, 0 when there is none
RECURSIVE FindLabelFrom(_, _, _)
FindLabelFrom(list, lbl, i) ==
    IF i > Len(list) THEN 0
    ELSE IF list[i].label = lbl THEN i
    ELSE FindLabelFrom(list, lbl, i + 1)

\* a lookup that keeps the last enumerated target when no label matches
FindLabelOrLast(list, lbl) ==
    IF FindLabelFrom(list, lbl, 1) # 0 THEN FindLabelFrom(list, lbl, 1) ELSE Len(list)

\* for i, nv_inst in enumerate(self.nv_list): if nv_inst.label == label: ... break
FindLabel(list, lbl) == FindLabelFrom(list, lbl, 1)

(* ------------------------------- state --------------------------------- *)
VARIABLES
    \* the orchestrator thread: position, return labels, the entry call
    pc, stack, entry, arg_kind, arg_label, arg_index, raised, retval,
    \* the number of registry calls the operator has made so far
    ops,
    \* the arguments of the running measure method
    exp, label, kwargs,
    \* locals of characterize_nv
    nv, rabi_result, hahn_result,
    \* locals of the measure methods
    start_time, last_refocus, current_time, fit_result,
    \* locals of refocus and of the wait loops, the argument of the running helper
    old_asset, scanner_pos, polls, harg,
    \* AutoMeasurementLogic's StatusVars
    nv_list, recipes, refocus_interval,
    \* pulsedmasterlogic: status_dict, loaded_asset, requests not yet completed,
    \* generation_parameters, the last generated program, fit_container, saved data
    status, loaded_asset, meas_q, pulser_q, gen_pending, samp_pending, load_pending,
    fit_pending, current_fit_param, gen_params, generated, saved,
    \* confocallogic: scanner position; optimizerlogic: module_state, pending start
    scanner, opt_state, opt_pending, opt_anchor,
    \* odmrlogic: module_state, pending scan start, fc.current_fit_param, saved data,
    \* the sweep settings in force
    odmr_state, odmr_pending, odmr_fit, odmr_saved, odmr_settings,
    \* the wall clock and the requests issued to the subsystems so far
    now, log,
    \* history of the running accumulation loop: when it began, time spent in refocus
    t_begin, t_refocus

ctlVars == <<pc, stack, entry, arg_kind, arg_label, arg_index, raised, retval, ops>>
callVars == <<exp, label, kwargs>>
charVars == <<nv, rabi_result, hahn_result>>
measVars == <<start_time, last_refocus, current_time, fit_result>>
refVars == <<old_asset, scanner_pos>>
progVars == <<nv_list, recipes, refocus_interval>>
pulseVars == <<status, loaded_asset, meas_q, pulser_q, gen_pending, samp_pending,
               load_pending, fit_pending, current_fit_param, gen_params, generated, saved>>
sweepVars == <<odmr_state, odmr_pending, odmr_fit, odmr_saved, odmr_settings>>
confVars == <<scanner, opt_state, opt_pending, opt_anchor, sweepVars>>
histVars == <<t_begin, t_refocus>>

vars == <<ctlVars, callVars, charVars, measVars, refVars, polls, harg, progVars, pulseVars,
          confVars, now, log, histVars>>

(* --------------------------- initial states ---------------------------- *)
Labels == {"NV1", "NV2"}

\* recipe runtimes of a run: none, exactly one tick, several ticks
Runtimes == {0, TickSleep, MaxRuntime}

\* refocus_interval: disabled (negative, zero), shorter than, equal to and longer
\* than one tick
Intervals == {-1, 0, 3, TickSleep, 8}

FitFrequencies == {2, 4}

\* generation_parameters['microwave_frequency'] of the pulse subsystem, in kHz
DefaultMwFrequency == 2870000
FitLifetimes == {3}

\* the StatusVar defaults, with every runtime replaced by rt
DefaultRecipes(rt) ==
    [odmr |-> [runtime |-> rt, fit |-> "Lorentzian dip", start |-> 2650, stop |-> 3150,
               step |-> 2, power |-> -20],
     rabi |-> [runtime |-> rt, fit |-> "sine_decay", start |-> 10, step |-> 10,
               points |-> 50],
     hahnecho |-> [runtime |-> rt, fit |-> "None", start |-> 1000, step |-> 1000,
                   points |-> 20, alternating |-> 1],
     xy8 |-> [runtime |-> rt, fit |-> "None", start |-> 500, order |-> 4, step |-> 10,
              points |-> 40, alternating |-> 1],
     pulsedODMR |-> [runtime |-> rt, freq_start |-> 2779000, freq_step |-> 200,
                     num_of_points |-> 100, fit |-> "N15"]]

NVAt(lbl, p) == NewNV(p, ZeroShift, lbl, NoCalibration)

\* registries built by add_nv: empty, two targets
InitRegistries ==
    { <<>>,
      <<NVAt("NV1", <<0, 0, 0>>), NVAt("NV2", <<1, 0, 0>>)>> }

IdleStatus ==
    [measurement_running |-> FALSE, pulser_running |-> FALSE,
     predefined_generation_busy |-> FALSE, sampload_busy |-> FALSE,
     sampling_ensemble_busy |-> FALSE, sampling_sequence_busy |-> FALSE,
     loading_busy |-> FALSE, fitting_busy |-> FALSE]

\* what refocus() can find when an operator calls it directly
RefocusScenes ==
    { [running |-> FALSE, asset |-> None],
      [running |-> FALSE, asset |-> Some(<<"rabi", "PulseBlockEnsemble">>)],
      [running |-> TRUE, asset |-> Some(<<"rabi", "PulseBlockEnsemble">>)],
      [running |-> TRUE, asset |-> Some(<<"seq", "PulseSequence">>)] }

\* a single keyword override `key=value`
Kwarg(key, value) == [k \in {key} |-> value]

\* the overrides a caller passes: none; a key of no recipe; a key of the odmr
\* recipe only; a key of the rabi, hahnecho and xy8 recipes; a key of the
\* pulsedODMR recipe only; a key of every recipe; the shared parameters
KwargChoices ==
    { NoKwargs, Kwarg("bogus", 7), Kwarg("power", -10), Kwarg("points", 7),
      Kwarg("freq_step", 300), Kwarg("runtime", TickSleep), Kwarg("amplitude", 3),
      Kwarg("rabi_period", 5), Kwarg("frequency", 2900000) }

InitIdle ==
    /\ raised = "" /\ retval = None /\ ops = 0
    /\ nv = 0 /\ rabi_result = None /\ hahn_result = None
    /\ start_time = 0 /\ last_refocus = 0 /\ current_time = 0 /\ fit_result = None
    /\ old_asset = None /\ scanner_pos = <<0, 0, 0, 0>> /\ polls = 0 /\ harg = <<>>
    /\ meas_q = <<>> /\ pulser_q = <<>> /\ gen_pending = None /\ samp_pending = None
    /\ load_pending = None /\ fit_pending = None /\ current_fit_param = None
    /\ gen_params = [rabi_period |-> None, microwave_amplitude |-> None,
                     microwave_frequency |-> Some(DefaultMwFrequency),
                     laser_length |-> None]
    /\ generated = None /\ saved = <<>>
    /\ scanner = <<2, 2, 2, 0>> /\ opt_state = "idle" /\ opt_pending = FALSE
    /\ opt_anchor = None
    /\ odmr_state = "idle" /\ odmr_pending = FALSE /\ odmr_fit = None
    /\ odmr_saved = <<>> /\ odmr_settings = None
    /\ now = 0 /\ log = <<>> /\ t_begin = 0 /\ t_refocus = 0

\* an operator calls characterize_nv(label) with a str or an int
InitCharacterize ==
    /\ InitIdle
    /\ entry = "characterize_nv" /\ pc = "ch_lookup" /\ stack = <<>>
    /\ \/ arg_kind = "str" /\ arg_label \in Labels \cup {"NV9"} /\ arg_index = 0
       \/ arg_kind = "int" /\ arg_label = "" /\ arg_index \in {-1, 0, 2}
       \/ arg_kind = "other" /\ arg_label = "" /\ arg_index = 0
    /\ exp = "rabi" /\ label = "" /\ kwargs = NoKwargs
    /\ nv_list \in InitRegistries
    /\ \E rt \in {0, MaxRuntime} : recipes = DefaultRecipes(rt)
    /\ refocus_interval \in {0, 8}
    /\ status = IdleStatus /\ loaded_asset = None

\* an operator calls one of the measure methods
InitMeasure ==
    /\ InitIdle
    /\ exp \in MeasureTypes
    /\ entry = "measure" /\ stack = <<"done">>
    /\ pc = CASE exp = "odmr" -> "od_on"
              [] exp = "t1_exponential" -> "t1_config"
              [] OTHER -> "m_config"
    /\ arg_kind = "str" /\ arg_label = "" /\ arg_index = 0
    /\ label \in {"", "NV1"} /\ kwargs \in KwargChoices
    /\ nv_list = <<>>
    /\ \E rt \in Runtimes : recipes = DefaultRecipes(rt)
    /\ refocus_interval \in Intervals
    \* calls with overrides are drawn with the shortest recipe and no in-run refocus
    /\ kwargs # NoKwargs => (recipes = DefaultRecipes(0) /\ refocus_interval = 0)
    /\ status = IdleStatus /\ loaded_asset = None

\* an operator calls refocus()
InitRefocus ==
    /\ InitIdle
    /\ entry = "refocus" /\ pc = "rf_entry" /\ stack = <<"done">>
    /\ arg_kind = "str" /\ arg_label = "" /\ arg_index = 0
    /\ exp = "rabi" /\ label = "" /\ kwargs = NoKwargs
    /\ nv_list = <<>>
    /\ recipes = DefaultRecipes(0)
    /\ refocus_interval = 0
    /\ \E sc \in RefocusScenes :
         /\ status = [IdleStatus EXCEPT !.measurement_running = sc.running]
         /\ loaded_asset = sc.asset

(* ------------------------- control and requests ------------------------ *)
entryVars == <<entry, arg_kind, arg_label, arg_index, ops>>

Goto(l) == pc' = l /\ stack' = stack
CallTo(l, ret) == pc' = l /\ stack' = <<ret>> \o stack
Return == pc' = Head(stack) /\ stack' = Tail(stack)

Logged(op, a, b) == Append(log, [op |-> op, a |-> a, b |-> b])

\* while <not cond>: time.sleep(sleep)      then continue with `done`
WaitUntil(cond, sleep, done) ==
    \/ /\ cond
       /\ polls' = polls /\ now' = now
       /\ done
    \/ /\ ~cond
       /\ polls < MaxPolls
       /\ polls' = polls + 1 /\ now' = now + sleep
       /\ Goto(pc)

(* ------------------------------ helpers -------------------------------- *)
\* the status flag sample_ensemble / sample_sequence polls
SampleBusyFlag(kind, with_load) ==
    IF with_load THEN "sampload_busy"
    ELSE IF kind = "PulseBlockEnsemble" THEN "sampling_ensemble_busy"
    ELSE "sampling_sequence_busy"

\* load_ensemble(name) / load_sequence(name): the request
LoadReq ==
    /\ pc = "ld_req"
    /\ status' = [status EXCEPT !.loading_busy = TRUE]
    /\ load_pending' = Some(harg)
    /\ log' = Logged(IF harg[2] = "PulseBlockEnsemble" THEN "load_ensemble"
                     ELSE "load_sequence", harg[1], "")
    /\ Goto("ld_wait")
    /\ UNCHANGED <<entryVars, raised, retval, callVars, charVars, measVars, refVars,
                   polls, harg, progVars, loaded_asset, meas_q, pulser_q, gen_pending,
                   samp_pending, fit_pending, current_fit_param, gen_params, generated,
                   saved, confVars, now, histVars>>

\* while status_dict['loading_busy']: time.sleep(0.2)
LoadWait ==
    /\ pc = "ld_wait"
    /\ WaitUntil(~status.loading_busy, PollSleep, Return)
    /\ UNCHANGED <<entryVars, raised, retval, callVars, charVars, measVars, refVars,
                   harg, progVars, pulseVars, confVars, log, histVars>>

\* toggle_pulse_generator(switch_on): the request
PulserReq ==
    /\ pc = "tpg_req"
    /\ pulser_q' = Append(pulser_q, harg[1])
    /\ log' = Logged("toggle_pulse_generator", harg[1], "")
    /\ Goto("tpg_wait")
    /\ UNCHANGED <<entryVars, raised, retval, callVars, charVars, measVars, refVars,
                   polls, harg, progVars, status, loaded_asset, meas_q, gen_pending,
                   samp_pending, load_pending, fit_pending, current_fit_param,
                   gen_params, generated, saved, confVars, now, histVars>>

\* while pulser_running differs from switch_on: time.sleep(0.2)
PulserWait ==
    /\ pc = "tpg_wait"
    /\ WaitUntil(status.pulser_running = (harg[1] = "True"), PollSleep, Goto("tpg_settle"))
    /\ UNCHANGED <<entryVars, raised, retval, callVars, charVars, measVars, refVars,
                   harg, progVars, pulseVars, confVars, log, histVars>>

\* time.sleep(3); return
PulserSettled ==
    /\ pc = "tpg_settle"
    /\ now' = now + PulserSettle
    /\ Return
    /\ UNCHANGED <<entryVars, raised, retval, callVars, charVars, measVars, refVars,
                   polls, harg, progVars, pulseVars, confVars, log, histVars>>

\* toggle_pulsed_measurement(start, tag): the request of the four measurement helpers
MeasToggleRequest(start, tag) ==
    /\ meas_q' = Append(meas_q, <<start, tag>>)
    /\ log' = Logged("toggle_pulsed_measurement", start, tag)

\* turn_on_pulsed_measurement: do_fit('No fit'), toggle_pulsed_measurement(True)
TurnOnReq ==
    /\ pc = "on_req"
    /\ status' = [status EXCEPT !.fitting_busy = TRUE]
    /\ fit_pending' = Some("No fit")
    /\ meas_q' = Append(meas_q, <<"True", "">>)
    /\ log' = Append(Logged("do_fit", "No fit", ""),
                     [op |-> "toggle_pulsed_measurement", a |-> "True", b |-> ""])
    /\ Goto("on_wait")
    /\ UNCHANGED <<entryVars, raised, retval, callVars, charVars, measVars, refVars,
                   polls, harg, progVars, loaded_asset, pulser_q, gen_pending,
                   samp_pending, load_pending, current_fit_param, gen_params, generated,
                   saved, confVars, now, histVars>>

\* a start that returns without waiting for the subsystem's confirmation
TurnOnWaitSkipped ==
    /\ pc = "on_wait"
    /\ Return
    /\ UNCHANGED <<entryVars, raised, retval, callVars, charVars, measVars, refVars,
                   polls, harg, progVars, pulseVars, confVars, now, log, histVars>>

\* while not status_dict['measurement_running']: time.sleep(0.2)
TurnOnWait ==
    /\ pc = "on_wait"
    /\ WaitUntil(status.measurement_running, PollSleep, Return)
    /\ UNCHANGED <<entryVars, raised, retval, callVars, charVars, measVars, refVars,
                   harg, progVars, pulseVars, confVars, log, histVars>>

\* turn_off_pulsed_measurement: toggle_pulsed_measurement(False)
TurnOffReq ==
    /\ pc = "off_req"
    /\ MeasToggleRequest("False", "")
    /\ Goto("off_wait")
    /\ UNCHANGED <<entryVars, raised, retval, callVars, charVars, measVars, refVars,
                   polls, harg, progVars, status, loaded_asset, pulser_q, gen_pending,
                   samp_pending, load_pending, fit_pending, current_fit_param,
                   gen_params, generated, saved, confVars, now, histVars>>

\* while status_dict['measurement_running']: time.sleep(0.2)
TurnOffWait ==
    /\ pc = "off_wait"
    /\ WaitUntil(~status.measurement_running, PollSleep, Return)
    /\ UNCHANGED <<entryVars, raised, retval, callVars, charVars, measVars, refVars,
                   harg, progVars, pulseVars, confVars, log, histVars>>

\* pause_pulsed_measurement: toggle_pulsed_measurement(False, 'paused_measurement')
PauseReq ==
    /\ pc = "pz_req"
    /\ MeasToggleRequest("False", "paused_measurement")
    /\ Goto("pz_wait")
    /\ UNCHANGED <<entryVars, raised, retval, callVars, charVars, measVars, refVars,
                   polls, harg, progVars, status, loaded_asset, pulser_q, gen_pending,
                   samp_pending, load_pending, fit_pending, current_fit_param,
                   gen_params, generated, saved, confVars, now, histVars>>

\* while status_dict['measurement_running']: time.sleep(0.2)
PauseWait ==
    /\ pc = "pz_wait"
    /\ WaitUntil(~status.measurement_running, PollSleep, Return)
    /\ UNCHANGED <<entryVars, raised, retval, callVars, charVars, measVars, refVars,
                   harg, progVars, pulseVars, confVars, log, histVars>>

\* continue_pulsed_measurement: toggle_pulsed_measurement(True, 'paused_measurement')
ContinueReq ==
    /\ pc = "ct_req"
    /\ MeasToggleRequest("True", "paused_measurement")
    /\ Goto("ct_wait")
    /\ UNCHANGED <<entryVars, raised, retval, callVars, charVars, measVars, refVars,
                   polls, harg, progVars, status, loaded_asset, pulser_q, gen_pending,
                   samp_pending, load_pending, fit_pending, current_fit_param,
                   gen_params, generated, saved, confVars, now, histVars>>

\* the condition continue_pulsed_measurement's loop ends on:
\* while status_dict['measurement_running']: time.sleep(0.2)
ContinueExit == ~status.measurement_running

ContinueWait ==
    /\ pc = "ct_wait"
    /\ WaitUntil(ContinueExit, PollSleep, Return)
    /\ UNCHANGED <<entryVars, raised, retval, callVars, charVars, measVars, refVars,
                   harg, progVars, pulseVars, confVars, log, histVars>>

\* n * 0.5 as the exact fraction <<numerator, denominator>> in lowest terms
HalfOf(n) == IF n % 2 = 0 THEN <<n \div 2, 1>> ELSE <<n, 2>>

\* param_dict as each measure method builds it from its recipe; the pulsed
\* resonance sweep is centred on the shared microwave frequency:
\* freq_start = microwave_frequency - 0.5 * freq_step * num_of_points, kept exact
ParamDict(e, rs, gp) ==
    CASE e = "rabi" ->
           [name |-> "rabi", tau_start |-> rs.rabi.start, tau_step |-> rs.rabi.step,
            number_of_taus |-> rs.rabi.points]
      [] e = "hahnecho" ->
           [name |-> "hahn_echo", tau_start |-> rs.hahnecho.start,
            tau_step |-> rs.hahnecho.step, num_of_points |-> rs.hahnecho.points,
            alternating |-> rs.hahnecho.alternating]
      [] e \in {"xy8", "xy8_random"} ->
           [name |-> "xy8", tau_start |-> rs.xy8.start, tau_step |-> rs.xy8.step,
            xy8_order |-> rs.xy8.order, num_of_points |-> rs.xy8.points,
            alternating |-> rs.xy8.alternating]
      [] e = "pulsedodmr" ->
           [name |-> "pulsedODMR",
            freq_start |-> HalfOf(2 * gp.microwave_frequency[1]
                                  - rs.pulsedODMR.freq_step * rs.pulsedODMR.num_of_points),
            freq_step |-> rs.pulsedODMR.freq_step,
            num_of_points |-> rs.pulsedODMR.num_of_points]

\* generate_predefined_sequence(name, params): the request
GenerateReq ==
    /\ pc = "gen_req"
    /\ status' = [status EXCEPT !.predefined_generation_busy = TRUE]
    /\ gen_pending' = Some(<<GeneratorMethod(exp), EnsembleName(exp),
                             ParamDict(exp, recipes, gen_params)>>)
    /\ log' = Logged("generate_predefined_sequence", GeneratorMethod(exp),
                     EnsembleName(exp))
    /\ Goto("gen_wait")
    /\ UNCHANGED <<entryVars, raised, retval, callVars, charVars, measVars, refVars,
                   polls, harg, progVars, loaded_asset, meas_q, pulser_q, samp_pending,
                   load_pending, fit_pending, current_fit_param, gen_params, generated,
                   saved, confVars, now, histVars>>

\* while status_dict['predefined_generation_busy']: time.sleep(0.2)
GenerateWait ==
    /\ pc = "gen_wait"
    /\ WaitUntil(~status.predefined_generation_busy, PollSleep, Return)
    /\ UNCHANGED <<entryVars, raised, retval, callVars, charVars, measVars, refVars,
                   harg, progVars, pulseVars, confVars, log, histVars>>

\* sample_ensemble(name, with_load) / sample_sequence(name, with_load): the
\* request; harg is <<name, kind of asset, with_load>>
SampleReq ==
    /\ pc = "smp_req"
    /\ status' = [status EXCEPT ![SampleBusyFlag(harg[2], harg[3])] = TRUE]
    /\ samp_pending' = Some(harg)
    /\ log' = Logged(IF harg[2] = "PulseBlockEnsemble" THEN "sample_ensemble"
                     ELSE "sample_sequence",
                     harg[1], IF harg[3] THEN "with_load" ELSE "")
    /\ Goto("smp_wait")
    /\ UNCHANGED <<entryVars, raised, retval, callVars, charVars, measVars, refVars,
                   polls, harg, progVars, loaded_asset, meas_q, pulser_q, gen_pending,
                   load_pending, fit_pending, current_fit_param, gen_params, generated,
                   saved, confVars, now, histVars>>

\* while status_dict['sampload_busy']: time.sleep(0.2)     (with_load), else
\* while status_dict['sampling_ensemble_busy' / 'sampling_sequence_busy']: ...
SampleWait ==
    /\ pc = "smp_wait"
    /\ WaitUntil(~status[SampleBusyFlag(harg[2], harg[3])], PollSleep, Return)
    /\ UNCHANGED <<entryVars, raised, retval, callVars, charVars, measVars, refVars,
                   harg, progVars, pulseVars, confVars, log, histVars>>

\* fit_pulsed(fit_function): do_fit(fit_function)
FitReq ==
    /\ pc = "fit_req"
    /\ status' = [status EXCEPT !.fitting_busy = TRUE]
    /\ fit_pending' = Some(recipes[RecipeName(exp)].fit)
    /\ log' = Logged("do_fit", recipes[RecipeName(exp)].fit, "")
    /\ Goto("fit_wait")
    /\ UNCHANGED <<entryVars, raised, retval, callVars, charVars, measVars, refVars,
                   polls, harg, progVars, loaded_asset, meas_q, pulser_q, gen_pending,
                   samp_pending, load_pending, current_fit_param, gen_params, generated,
                   saved, confVars, now, histVars>>

\* while status_dict['fitting_busy']: time.sleep(0.2)
\* return fit_container.current_fit_param      (deep-copied by the caller)
FitWait ==
    /\ pc = "fit_wait"
    /\ \/ /\ ~status.fitting_busy
          /\ fit_result' = current_fit_param
          /\ polls' = polls /\ now' = now
          /\ Return
       \/ /\ status.fitting_busy
          /\ polls < MaxPolls
          /\ polls' = polls + 1 /\ now' = now + PollSleep
          /\ fit_result' = fit_result
          /\ Goto(pc)
    /\ UNCHANGED <<entryVars, raised, retval, callVars, charVars, start_time,
                   last_refocus, current_time, refVars, harg, progVars, pulseVars,
                   confVars, log, histVars>>

(* --------------------------- confocal methods -------------------------- *)
\* move_to: err_code = set_position('optimizer', *position); logged when nonzero
MoveReq ==
    /\ pc = "mv_req"
    /\ \E err_code \in {0, -1} :
         /\ scanner' = IF err_code = 0
                       THEN <<Position(nv_list[nv])[1], Position(nv_list[nv])[2],
                              Position(nv_list[nv])[3], scanner[4]>>
                       ELSE scanner
         /\ log' = Logged("set_position", IF err_code = 0 THEN "ok" ELSE "rejected", "")
    /\ Goto("mv_sleep")
    /\ UNCHANGED <<entryVars, raised, retval, callVars, charVars, measVars, refVars,
                   polls, harg, progVars, pulseVars, opt_state, opt_pending,
                   opt_anchor, sweepVars, now, histVars>>

\* time.sleep(1); return
MoveSettled ==
    /\ pc = "mv_sleep"
    /\ now' = now + MoveSettle
    /\ Return
    /\ UNCHANGED <<entryVars, raised, retval, callVars, charVars, measVars, refVars,
                   polls, harg, progVars, pulseVars, confVars, log, histVars>>

\* a cycle that captures and pauses whether or not a measurement is running
RefocusEntryAlwaysPauses ==
    /\ pc = "rf_entry"
    /\ old_asset' = loaded_asset /\ CallTo("pz_req", "rf_getpos")
    /\ UNCHANGED <<entryVars, raised, retval, callVars, charVars, measVars,
                   scanner_pos, polls, harg, progVars, pulseVars, confVars, now, log,
                   histVars>>

\* refocus, lines 324-328: snapshot the running measurement and pause it
RefocusEntry ==
    /\ pc = "rf_entry"
    /\ IF status.measurement_running
       THEN old_asset' = loaded_asset /\ CallTo("pz_req", "rf_getpos")
       ELSE old_asset' = None /\ Goto("rf_getpos")
    /\ UNCHANGED <<entryVars, raised, retval, callVars, charVars, measVars,
                   scanner_pos, polls, harg, progVars, pulseVars, confVars, now, log,
                   histVars>>

\* scanner_pos = get_position(); load_ensemble('laser_on')
RefocusLoadLaser ==
    /\ pc = "rf_getpos"
    /\ scanner_pos' = scanner
    /\ harg' = <<"laser_on", "PulseBlockEnsemble">>
    /\ CallTo("ld_req", "rf_on")
    /\ UNCHANGED <<entryVars, raised, retval, callVars, charVars, measVars, old_asset,
                   polls, progVars, pulseVars, confVars, now, log, histVars>>

\* a cycle that starts the optimizer without enabling the pulse output
RefocusPulserOnSkipped ==
    /\ pc = "rf_on"
    /\ harg' = <<"True">>
    /\ Goto("rf_start")
    /\ UNCHANGED <<entryVars, raised, retval, callVars, charVars, measVars, refVars,
                   polls, progVars, pulseVars, confVars, now, log, histVars>>

\* toggle_pulse_generator(True)
RefocusPulserOn ==
    /\ pc = "rf_on"
    /\ harg' = <<"True">>
    /\ CallTo("tpg_req", "rf_start")
    /\ UNCHANGED <<entryVars, raised, retval, callVars, charVars, measVars, refVars,
                   polls, progVars, pulseVars, confVars, now, log, histVars>>

\* optimizerlogic().start_refocus(scanner_pos, 'confocalgui')
RefocusStart ==
    /\ pc = "rf_start"
    /\ opt_pending' = TRUE
    /\ opt_anchor' = Some(scanner_pos)
    /\ log' = Logged("start_refocus", "confocalgui", "")
    /\ Goto("rf_wait_start")
    /\ UNCHANGED <<entryVars, raised, retval, callVars, charVars, measVars, refVars,
                   polls, harg, progVars, pulseVars, scanner, opt_state, sweepVars, now,
                   histVars>>

\* while module_state() != 'locked': time.sleep(0.1)
RefocusWaitStart ==
    /\ pc = "rf_wait_start"
    /\ WaitUntil(opt_state = "locked", OptPollSleep, Goto("rf_wait_finish"))
    /\ UNCHANGED <<entryVars, raised, retval, callVars, charVars, measVars, refVars,
                   harg, progVars, pulseVars, confVars, log, histVars>>

\* a cycle that goes on as soon as the optimizer has started
RefocusWaitFinishSkipped ==
    /\ pc = "rf_wait_finish"
    /\ Goto("rf_settle")
    /\ UNCHANGED <<entryVars, raised, retval, callVars, charVars, measVars, refVars,
                   polls, harg, progVars, pulseVars, confVars, now, log, histVars>>

\* while module_state() == 'locked': time.sleep(0.2)
RefocusWaitFinish ==
    /\ pc = "rf_wait_finish"
    /\ WaitUntil(opt_state # "locked", PollSleep, Goto("rf_settle"))
    /\ UNCHANGED <<entryVars, raised, retval, callVars, charVars, measVars, refVars,
                   harg, progVars, pulseVars, confVars, log, histVars>>

\* time.sleep(2); toggle_pulse_generator(False)
RefocusPulserOff ==
    /\ pc = "rf_settle"
    /\ now' = now + RefocusSettle
    /\ harg' = <<"False">>
    /\ CallTo("tpg_req", "rf_restore")
    /\ UNCHANGED <<entryVars, raised, retval, callVars, charVars, measVars, refVars,
                   polls, progVars, pulseVars, confVars, log, histVars>>

\* a reload that always uses load_ensemble, whatever kind of program was captured
RestoreArgAlwaysEnsemble(asset) == <<asset[1], "PulseBlockEnsemble">>

\* the load request that puts old_asset back: load_ensemble for a
\* 'PulseBlockEnsemble', load_sequence for anything else
RestoreArg(asset) ==
    IF asset[2] = "PulseBlockEnsemble" THEN <<asset[1], "PulseBlockEnsemble">>
    ELSE <<asset[1], "PulseSequence">>

\* if old_asset is not None: reload it (then continue), else return
RefocusRestore ==
    /\ pc = "rf_restore"
    /\ IF old_asset # None
       THEN harg' = RestoreArg(old_asset[1]) /\ CallTo("ld_req", "rf_continue")
       ELSE harg' = harg /\ Goto("rf_ret")
    /\ UNCHANGED <<entryVars, raised, retval, callVars, charVars, measVars, refVars,
                   polls, progVars, pulseVars, confVars, now, log, histVars>>

\* continue_pulsed_measurement()
RefocusContinue ==
    /\ pc = "rf_continue"
    /\ CallTo("ct_req", "rf_ret")
    /\ UNCHANGED <<entryVars, raised, retval, callVars, charVars, measVars, refVars,
                   polls, harg, progVars, pulseVars, confVars, now, log, histVars>>

\* return
RefocusReturn ==
    /\ pc = "rf_ret"
    /\ Return
    /\ UNCHANGED <<entryVars, raised, retval, callVars, charVars, measVars, refVars,
                   polls, harg, progVars, pulseVars, confVars, now, log, histVars>>

(* ----------------------- pulsed measure methods ------------------------ *)
\* the shared generation parameters after the `if '<key>' in kwargs` lines
SharedAfter(e, kw, gp) ==
    [gp EXCEPT
       !.microwave_amplitude =
           IF "amplitude" \in SharedKeys(e) /\ "amplitude" \in DOMAIN kw
           THEN Some(kw["amplitude"]) ELSE @,
       !.rabi_period =
           IF "rabi_period" \in SharedKeys(e) /\ "rabi_period" \in DOMAIN kw
           THEN Some(kw["rabi_period"]) ELSE @]

\* the set_generation_parameters requests of the `if '<key>' in kwargs` lines:
\* the mw_amplitude setter first, the rabi_period setter second
SharedRequests(e, kw) ==
    (IF "amplitude" \in SharedKeys(e) /\ "amplitude" \in DOMAIN kw
     THEN <<[op |-> "set_generation_parameters", a |-> "microwave_amplitude", b |-> ""]>>
     ELSE <<>>)
    \o (IF "rabi_period" \in SharedKeys(e) /\ "rabi_period" \in DOMAIN kw
        THEN <<[op |-> "set_generation_parameters", a |-> "rabi_period", b |-> ""]>>
        ELSE <<>>)

\* merge kwargs into the recipe, set the shared parameters, build param_dict,
\* generate_predefined_sequence(...)
MeasureConfigure ==
    /\ pc = "m_config"
    /\ recipes' = [recipes EXCEPT ![RecipeName(exp)] =
                      MergeOverrides(@, recipes[FilterName(exp)], kwargs)]
    /\ gen_params' = SharedAfter(exp, kwargs, gen_params)
    /\ log' = log \o SharedRequests(exp, kwargs)
    /\ CallTo("gen_req", "m_sample")
    /\ UNCHANGED <<entryVars, raised, retval, callVars, charVars, measVars, refVars,
                   polls, harg, nv_list, refocus_interval, status, loaded_asset, meas_q,
                   pulser_q, gen_pending, samp_pending, load_pending, fit_pending,
                   current_fit_param, generated, saved, confVars, now, histVars>>

\* sample_ensemble(name, with_load=True)
MeasureSample ==
    /\ pc = "m_sample"
    /\ harg' = <<EnsembleName(exp), "PulseBlockEnsemble", TRUE>>
    /\ CallTo("smp_req", "m_settings")
    /\ UNCHANGED <<entryVars, raised, retval, callVars, charVars, measVars, refVars,
                   polls, progVars, pulseVars, confVars, now, log, histVars>>

\* set_measurement_settings(invoke_settings=True); turn_on_pulsed_measurement()
MeasureTurnOn ==
    /\ pc = "m_settings"
    /\ log' = Logged("set_measurement_settings", "invoke_settings", "")
    /\ CallTo("on_req", "m_init")
    /\ UNCHANGED <<entryVars, raised, retval, callVars, charVars, measVars, refVars,
                   polls, harg, progVars, pulseVars, confVars, now, histVars>>

\* start_time = time.time(); last_refocus = time.time()
MeasureInitClock ==
    /\ pc = "m_init"
    /\ start_time' = now /\ last_refocus' = now
    /\ t_begin' = now /\ t_refocus' = 0
    /\ Goto("m_loop")
    /\ UNCHANGED <<entryVars, raised, retval, callVars, charVars, current_time,
                   fit_result, refVars, polls, harg, progVars, pulseVars, confVars, now,
                   log>>

\* the recipe's runtime, read at every loop test
Runtime == recipes[RecipeName(exp)].runtime

\* a guard that takes a zero interval for an enabled one
RefocusEnabledAtZero == refocus_interval >= 0

\* if self.refocus_interval > 0:
RefocusEnabled == refocus_interval > 0

\* a trigger that waits for more than the interval
RefocusDueStrictly(t) == t - last_refocus > refocus_interval

\* if current_time - last_refocus >= self.refocus_interval:
RefocusDue(t) == t - last_refocus >= refocus_interval

\* while time.time() - start_time < runtime: [current_time = time.time();
\* refocus() when enabled and due]
MeasureLoop ==
    /\ pc = "m_loop"
    /\ IF now - start_time < Runtime
       THEN IF RefocusEnabled
            THEN /\ current_time' = now
                 /\ IF RefocusDue(now)
                    THEN CallTo("rf_entry", "m_after_refocus")
                    ELSE Goto("m_sleep")
            ELSE current_time' = current_time /\ Goto("m_sleep")
       ELSE current_time' = current_time /\ Goto("m_off")
    /\ UNCHANGED <<entryVars, raised, retval, callVars, charVars, start_time,
                   last_refocus, fit_result, refVars, polls, harg, progVars, pulseVars,
                   confVars, now, log, histVars>>

\* a correction measured from the previous refocus instead of from current_time
CorrectedStartFromLastRefocus(t) == start_time + (t - last_refocus)

\* no correction at all: the refocus time stays in the accumulated time
CorrectedStartOmitted(t) == start_time

\* start_time += last_refocus - current_time, with last_refocus just set to t
CorrectedStart(t) == start_time + (t - current_time)

\* last_refocus = time.time(); start_time += last_refocus - current_time
MeasureAfterRefocus ==
    /\ pc = "m_after_refocus"
    /\ last_refocus' = now
    /\ start_time' = CorrectedStart(now)
    /\ t_refocus' = t_refocus + (now - current_time)
    /\ Goto("m_sleep")
    /\ UNCHANGED <<entryVars, raised, retval, callVars, charVars, current_time,
                   fit_result, refVars, polls, harg, progVars, pulseVars, confVars, now,
                   log, t_begin>>

\* a tick that takes no time
MeasureSleepSkipped ==
    /\ pc = "m_sleep"
    /\ Goto("m_loop")
    /\ UNCHANGED <<entryVars, raised, retval, callVars, charVars, measVars, refVars,
                   polls, harg, progVars, pulseVars, confVars, now, log, histVars>>

\* time.sleep(0.5)
MeasureSleep ==
    /\ pc = "m_sleep"
    /\ now' = now + TickSleep
    /\ Goto("m_loop")
    /\ UNCHANGED <<entryVars, raised, retval, callVars, charVars, measVars, refVars,
                   polls, harg, progVars, pulseVars, confVars, log, histVars>>

\* turn_off_pulsed_measurement()
MeasureTurnOff ==
    /\ pc = "m_off"
    /\ CallTo("off_req", "m_fit")
    /\ UNCHANGED <<entryVars, raised, retval, callVars, charVars, measVars, refVars,
                   polls, harg, progVars, pulseVars, confVars, now, log, histVars>>

\* fit_result = copy.deepcopy(self.fit_pulsed(recipe['fit']))
MeasureFit ==
    /\ pc = "m_fit"
    /\ CallTo("fit_req", "m_save")
    /\ UNCHANGED <<entryVars, raised, retval, callVars, charVars, measVars, refVars,
                   polls, harg, progVars, pulseVars, confVars, now, log, histVars>>

\* save_measurement_data(tag=savetag, with_error=...); return fit_result
MeasureSave ==
    /\ pc = "m_save"
    /\ saved' = Append(saved, [tag |-> SaveTag(exp, label, recipes.xy8.order),
                               with_error |-> WithError(exp)])
    /\ log' = Logged("save_measurement_data", TagPrefix(exp), "")
    /\ Return
    /\ UNCHANGED <<entryVars, raised, retval, callVars, charVars, measVars, refVars,
                   polls, harg, progVars, status, loaded_asset, meas_q, pulser_q,
                   gen_pending, samp_pending, load_pending, fit_pending,
                   current_fit_param, gen_params, generated, confVars, now, histVars>>

(* ----------------------------- measure_odmr ---------------------------- *)
\* the largest microwave power the sweep subsystem sets, in dBm
SweepPowerLimit == -15

\* set_sweep_parameters(start, stop, step, power) and set_runtime(runtime) answer
\* with the values the sweep subsystem has set: the requested ones, the power
\* clipped to the subsystem's limit
SweepAnswer(recipe) ==
    [recipe EXCEPT !.power = IF @ > SweepPowerLimit THEN SweepPowerLimit ELSE @]

\* toggle_pulse_generator(True)
OdmrPulserOn ==
    /\ pc = "od_on"
    /\ harg' = <<"True">>
    /\ CallTo("tpg_req", "od_config")
    /\ UNCHANGED <<entryVars, raised, retval, callVars, charVars, measVars, refVars,
                   polls, progVars, pulseVars, confVars, now, log, histVars>>

\* lines 356-364: merge the overrides into self.odmr, store the values the sweep
\* subsystem answers with, start_odmr_scan()
OdmrConfigure ==
    /\ pc = "od_config"
    /\ odmr_settings' = Some(SweepAnswer(MergeOverrides(recipes.odmr, recipes.odmr,
                                                        kwargs)))
    /\ recipes' = [recipes EXCEPT !.odmr = odmr_settings'[1]]
    /\ odmr_pending' = TRUE
    /\ log' = Logged("set_sweep_parameters", "", "")
                 \o << [op |-> "set_runtime", a |-> "", b |-> ""],
                       [op |-> "start_odmr_scan", a |-> "", b |-> ""] >>
    /\ Goto("od_wait_start")
    /\ UNCHANGED <<entryVars, raised, retval, callVars, charVars, measVars, refVars,
                   polls, harg, nv_list, refocus_interval, pulseVars, scanner, opt_state,
                   opt_pending, opt_anchor, odmr_state, odmr_fit, odmr_saved, now,
                   histVars>>

\* while odmrlogic().module_state() == 'idle': time.sleep(0.2)
OdmrWaitStart ==
    /\ pc = "od_wait_start"
    /\ WaitUntil(odmr_state # "idle", PollSleep, Goto("od_wait_finish"))
    /\ UNCHANGED <<entryVars, raised, retval, callVars, charVars, measVars, refVars,
                   harg, progVars, pulseVars, confVars, log, histVars>>

\* a method that goes on to the fit as soon as the sweep has started
OdmrWaitFinishSkipped ==
    /\ pc = "od_wait_finish"
    /\ Goto("od_fit")
    /\ UNCHANGED <<entryVars, raised, retval, callVars, charVars, measVars, refVars,
                   polls, harg, progVars, pulseVars, confVars, now, log, histVars>>

\* while odmrlogic().module_state() == 'locked': time.sleep(1)
OdmrWaitFinish ==
    /\ pc = "od_wait_finish"
    /\ WaitUntil(odmr_state # "locked", OdmrPollSleep, Goto("od_fit"))
    /\ UNCHANGED <<entryVars, raised, retval, callVars, charVars, measVars, refVars,
                   harg, progVars, pulseVars, confVars, log, histVars>>

\* lines 369-374: time.sleep(1); do_fit(fit_function); copy fc.current_fit_param;
\* save_odmr_data(tag=savetag, percentile_range=[1, 99]); toggle_pulse_generator(False)
OdmrFitAndSave ==
    /\ pc = "od_fit"
    /\ now' = now + OdmrSettle
    /\ \E f \in FitFrequencies, l \in FitLifetimes :
         odmr_fit' = Some([frequency |-> f, lifetime |-> l])
    /\ fit_result' = odmr_fit'
    /\ odmr_saved' = Append(odmr_saved, [tag |-> SaveTag(exp, label, recipes.xy8.order),
                                         percentile_range |-> <<1, 99>>])
    /\ log' = Append(Logged("odmr_do_fit", recipes.odmr.fit, ""),
                     [op |-> "save_odmr_data", a |-> TagPrefix(exp), b |-> ""])
    /\ harg' = <<"False">>
    /\ CallTo("tpg_req", "od_ret")
    /\ UNCHANGED <<entryVars, raised, retval, callVars, charVars, start_time,
                   last_refocus, current_time, refVars, polls, progVars, pulseVars,
                   scanner, opt_state, opt_pending, opt_anchor, odmr_state,
                   odmr_pending, odmr_settings, histVars>>

\* return fit_result
OdmrReturn ==
    /\ pc = "od_ret"
    /\ Return
    /\ UNCHANGED <<entryVars, raised, retval, callVars, charVars, measVars, refVars,
                   polls, harg, progVars, pulseVars, confVars, now, log, histVars>>

(* ------------------------ measure_t1_exponential ----------------------- *)
\* lines 384-392: the method reads self.t1_exp, an attribute that is defined
\* nowhere (there is no such StatusVar): line 385 raises AttributeError when
\* overrides are given, line 392 when none are
T1Configure ==
    /\ pc = "t1_config"
    /\ raised' = "AttributeError"
    /\ Goto("raised")
    /\ UNCHANGED <<entryVars, retval, callVars, charVars, measVars, refVars, polls,
                   harg, progVars, pulseVars, confVars, now, log, histVars>>

(* --------------------------- characterize_nv --------------------------- *)
\* lines 262-277: resolve the target by index or by label
CharacterizeLookup ==
    /\ pc = "ch_lookup"
    /\ CASE arg_kind = "int" ->
              IF PyIndex(nv_list, arg_index) = 0
              THEN /\ raised' = "IndexError" /\ Goto("raised")
                   /\ UNCHANGED <<nv, label>>
              ELSE /\ nv' = PyIndex(nv_list, arg_index)
                   /\ label' = IF nv_list[nv'].label # "" THEN nv_list[nv'].label
                               ELSE IntToStr(arg_index)
                   /\ Goto("ch_move") /\ UNCHANGED raised
         [] arg_kind = "str" ->
              /\ nv' = FindLabel(nv_list, arg_label)
              /\ label' = arg_label
              /\ IF nv' = 0 THEN Goto("done") ELSE Goto("ch_move")
              /\ UNCHANGED raised
         [] OTHER -> Goto("done") /\ UNCHANGED <<nv, label, raised>>
    /\ UNCHANGED <<entryVars, retval, exp, kwargs, rabi_result, hahn_result, measVars,
                   refVars, polls, harg, progVars, pulseVars, confVars, now, log,
                   histVars>>

\* self.move_to(nv.position)
CharacterizeMove ==
    /\ pc = "ch_move"
    /\ CallTo("mv_req", "ch_refocus1")
    /\ UNCHANGED <<entryVars, raised, retval, callVars, charVars, measVars, refVars,
                   polls, harg, progVars, pulseVars, confVars, now, log, histVars>>

\* self.refocus()                                             (line 279)
CharacterizeRefocus ==
    /\ pc = "ch_refocus1"
    /\ CallTo("rf_entry", "ch_rabi")
    /\ UNCHANGED <<entryVars, raised, retval, callVars, charVars, measVars, refVars,
                   polls, harg, progVars, pulseVars, confVars, now, log, histVars>>

\* rabi_result = self.measure_rabi(label)
CharacterizeRabi ==
    /\ pc = "ch_rabi"
    /\ exp' = "rabi" /\ kwargs' = NoKwargs
    /\ CallTo("m_config", "ch_store_rabi")
    /\ UNCHANGED <<entryVars, raised, retval, label, charVars, measVars, refVars,
                   polls, harg, progVars, pulseVars, confVars, now, log, histVars>>

\* a setter that never reaches the pulse subsystem
WithRabiPeriodDropped(gp, period) == gp

\* the rabi_period setter: set_generation_parameters(rabi_period=period)
WithRabiPeriod(gp, period) == [gp EXCEPT !.rabi_period = Some(period)]

\* nv.rabi_period = 1/rabi_result['frequency'].value; self.rabi_period = nv.rabi_period
CharacterizeStoreRabi ==
    /\ pc = "ch_store_rabi"
    /\ rabi_result' = fit_result
    /\ IF fit_result = None
       THEN /\ raised' = "TypeError" /\ Goto("raised")
            /\ UNCHANGED <<nv_list, gen_params, log>>
       ELSE IF fit_result[1].frequency = 0
       THEN /\ raised' = "ZeroDivisionError" /\ Goto("raised")
            /\ UNCHANGED <<nv_list, gen_params, log>>
       ELSE /\ nv_list' = [nv_list EXCEPT ![nv].rabi_period =
                              Some(Reciprocal(fit_result[1].frequency))]
            /\ gen_params' = WithRabiPeriod(gen_params,
                                            Reciprocal(fit_result[1].frequency))
            /\ log' = Logged("set_generation_parameters", "rabi_period", "")
            /\ Goto("ch_refocus2") /\ UNCHANGED raised
    /\ UNCHANGED <<entryVars, retval, callVars, nv, hahn_result, measVars, refVars,
                   polls, harg, recipes, refocus_interval, status, loaded_asset, meas_q,
                   pulser_q, gen_pending, samp_pending, load_pending, fit_pending,
                   current_fit_param, generated, saved, confVars, now, histVars>>

\* self.refocus()                                             (line 303)
CharacterizeRefocusAgain ==
    /\ pc = "ch_refocus2"
    /\ CallTo("rf_entry", "ch_hahn")
    /\ UNCHANGED <<entryVars, raised, retval, callVars, charVars, measVars, refVars,
                   polls, harg, progVars, pulseVars, confVars, now, log, histVars>>

\* hahn_result = self.measure_hahnecho(label)
CharacterizeHahn ==
    /\ pc = "ch_hahn"
    /\ exp' = "hahnecho" /\ kwargs' = NoKwargs
    /\ CallTo("m_config", "ch_store_t2")
    /\ UNCHANGED <<entryVars, raised, retval, label, charVars, measVars, refVars,
                   polls, harg, progVars, pulseVars, confVars, now, log, histVars>>

\* nv.t2 = hahn_result['lifetime'].value; return rabi_result, hahn_result
CharacterizeStoreT2 ==
    /\ pc = "ch_store_t2"
    /\ hahn_result' = fit_result
    /\ IF fit_result = None
       THEN /\ raised' = "TypeError" /\ Goto("raised")
            /\ UNCHANGED <<nv_list, retval>>
       ELSE /\ nv_list' = [nv_list EXCEPT ![nv].t2 = Some(fit_result[1].lifetime)]
            /\ retval' = Some(<<rabi_result, fit_result>>)
            /\ Goto("done") /\ UNCHANGED raised
    /\ UNCHANGED <<entryVars, callVars, nv, rabi_result, measVars, refVars, polls, harg,
                   recipes, refocus_interval, pulseVars, confVars, now, log, histVars>>

(* ------------------- the subsystems (spec.md section 6) ---------------- *)
orchVars == <<ctlVars, callVars, charVars, measVars, refVars, polls, harg, progVars>>

\* the pulse subsystem carries out the oldest start/stop/pause/continue request
PulseMeasurementToggled ==
    /\ meas_q # <<>>
    /\ status' = [status EXCEPT !.measurement_running = (Head(meas_q)[1] = "True")]
    /\ meas_q' = Tail(meas_q)
    /\ UNCHANGED <<orchVars, loaded_asset, pulser_q, gen_pending, samp_pending,
                   load_pending, fit_pending, current_fit_param, gen_params, generated,
                   saved, confVars, now, log, histVars>>

\* the pulse subsystem carries out the oldest set_output_enabled request
PulseOutputToggled ==
    /\ pulser_q # <<>>
    /\ status' = [status EXCEPT !.pulser_running = (Head(pulser_q) = "True")]
    /\ pulser_q' = Tail(pulser_q)
    /\ UNCHANGED <<orchVars, loaded_asset, meas_q, gen_pending, samp_pending,
                   load_pending, fit_pending, current_fit_param, gen_params, generated,
                   saved, confVars, now, log, histVars>>

\* program generation finishes, using the shared generation parameters
PulseGenerated ==
    /\ gen_pending # None
    /\ generated' = Some([method |-> gen_pending[1][1], name |-> gen_pending[1][2],
                          params |-> gen_pending[1][3],
                          rabi_period |-> gen_params.rabi_period])
    /\ gen_pending' = None
    /\ status' = [status EXCEPT !.predefined_generation_busy = FALSE]
    /\ UNCHANGED <<orchVars, loaded_asset, meas_q, pulser_q, samp_pending, load_pending,
                   fit_pending, current_fit_param, gen_params, saved, confVars, now,
                   log, histVars>>

\* sampling finishes and the busy flag of the request falls; with with_load the
\* sampled asset becomes the loaded program
PulseSampledAndLoaded ==
    /\ samp_pending # None
    /\ loaded_asset' = IF samp_pending[1][3]
                       THEN Some(<<samp_pending[1][1], samp_pending[1][2]>>)
                       ELSE loaded_asset
    /\ samp_pending' = None
    /\ status' = [status EXCEPT
                     ![SampleBusyFlag(samp_pending[1][2], samp_pending[1][3])] = FALSE]
    /\ UNCHANGED <<orchVars, meas_q, pulser_q, gen_pending, load_pending, fit_pending,
                   current_fit_param, gen_params, generated, saved, confVars, now, log,
                   histVars>>

\* loading finishes: the requested program is the loaded program
PulseLoaded ==
    /\ load_pending # None
    /\ loaded_asset' = load_pending
    /\ load_pending' = None
    /\ status' = [status EXCEPT !.loading_busy = FALSE]
    /\ UNCHANGED <<orchVars, meas_q, pulser_q, gen_pending, samp_pending, fit_pending,
                   current_fit_param, gen_params, generated, saved, confVars, now, log,
                   histVars>>

\* the fit finishes: 'No fit' clears the fit parameters, a fit function yields a
\* parameter set with a positive frequency and a lifetime, and a request that
\* names no fit function (None) may end either way
PulseFitted ==
    /\ fit_pending # None
    /\ \E f \in FitFrequencies, l \in FitLifetimes, fitted \in BOOLEAN :
         current_fit_param' = IF fit_pending[1] = "No fit"
                                 \/ (fit_pending[1] = "None" /\ ~fitted)
                              THEN None
                              ELSE Some([frequency |-> f, lifetime |-> l])
    /\ fit_pending' = None
    /\ status' = [status EXCEPT !.fitting_busy = FALSE]
    /\ UNCHANGED <<orchVars, loaded_asset, meas_q, pulser_q, gen_pending, samp_pending,
                   load_pending, gen_params, generated, saved, confVars, now, log,
                   histVars>>

\* the optimizer takes up the refocus request: module_state becomes 'locked'
OptimizerStarted ==
    /\ opt_pending /\ opt_state = "idle"
    /\ opt_state' = "locked" /\ opt_pending' = FALSE
    /\ UNCHANGED <<orchVars, pulseVars, scanner, opt_anchor, sweepVars, now, log,
                   histVars>>

\* the points the optimizer may find as the optimum
Optima == { <<0, 0, 0>>, <<1, 0, 0>> }

\* the optimizer finishes and leaves the scanner at the optimum it found
OptimizerFinished ==
    /\ opt_state = "locked"
    /\ opt_state' = "idle"
    /\ \E o \in Optima : scanner' = <<o[1], o[2], o[3], opt_anchor[1][4]>>
    /\ UNCHANGED <<orchVars, pulseVars, opt_pending, opt_anchor, sweepVars, now, log,
                   histVars>>

\* the sweep subsystem takes up the scan request: module_state becomes 'locked'
OdmrScanStarted ==
    /\ odmr_pending /\ odmr_state = "idle"
    /\ odmr_state' = "locked" /\ odmr_pending' = FALSE
    /\ UNCHANGED <<orchVars, pulseVars, scanner, opt_state, opt_pending, opt_anchor,
                   odmr_fit, odmr_saved, odmr_settings, now, log, histVars>>

\* the sweep has run for its runtime: module_state becomes 'idle' again
OdmrScanFinished ==
    /\ odmr_state = "locked"
    /\ odmr_state' = "idle"
    /\ UNCHANGED <<orchVars, pulseVars, scanner, opt_state, opt_pending, opt_anchor,
                   odmr_pending, odmr_fit, odmr_saved, odmr_settings, now, log,
                   histVars>>

(* --------------------------- specification ----------------------------- *)
\* the methods a refocus cycle runs
RefocusSteps ==
    \/ RefocusEntry \/ RefocusLoadLaser \/ RefocusPulserOn \/ RefocusStart
    \/ RefocusWaitStart \/ RefocusWaitFinish \/ RefocusPulserOff \/ RefocusRestore
    \/ RefocusContinue \/ RefocusReturn
    \/ LoadReq \/ LoadWait \/ PulserReq \/ PulserWait \/ PulserSettled
    \/ PauseReq \/ PauseWait \/ ContinueReq \/ ContinueWait

RefocusSubsystems ==
    \/ PulseMeasurementToggled \/ PulseOutputToggled \/ PulseLoaded
    \/ OptimizerStarted \/ OptimizerFinished

\* the methods a pulsed measure method runs besides refocus
MeasureSteps ==
    \/ MeasureConfigure \/ MeasureSample \/ MeasureTurnOn \/ MeasureInitClock
    \/ MeasureLoop \/ MeasureAfterRefocus \/ MeasureSleep \/ MeasureTurnOff
    \/ MeasureFit \/ MeasureSave
    \/ TurnOnReq \/ TurnOnWait \/ TurnOffReq \/ TurnOffWait
    \/ GenerateReq \/ GenerateWait \/ SampleReq \/ SampleWait \/ FitReq \/ FitWait

MeasureSubsystems ==
    \/ PulseGenerated \/ PulseSampledAndLoaded \/ PulseFitted

CharacterizeSteps ==
    \/ CharacterizeLookup \/ CharacterizeMove \/ CharacterizeRefocus
    \/ CharacterizeRabi \/ CharacterizeStoreRabi \/ CharacterizeRefocusAgain
    \/ CharacterizeHahn \/ CharacterizeStoreT2
    \/ MoveReq \/ MoveSettled

\* a call of characterize_nv
Next ==
    \/ CharacterizeSteps \/ MeasureSteps \/ RefocusSteps
    \/ MeasureSubsystems \/ RefocusSubsystems

Spec == InitCharacterize /\ [][Next]_vars

\* the steps of measure_odmr besides toggle_pulse_generator
OdmrSteps ==
    \/ OdmrPulserOn \/ OdmrConfigure \/ OdmrWaitStart \/ OdmrWaitFinish
    \/ OdmrFitAndSave \/ OdmrReturn

OdmrSubsystems == OdmrScanStarted \/ OdmrScanFinished

\* a call of one measure method
NextMeasure ==
    \/ MeasureSteps \/ OdmrSteps \/ T1Configure \/ RefocusSteps
    \/ MeasureSubsystems \/ OdmrSubsystems \/ RefocusSubsystems

SpecMeasure == InitMeasure /\ [][NextMeasure]_vars

\* a call of one measure method under fair scheduling: the orchestrator thread
\* keeps running, every subsystem eventually carries out a request it has
\* accepted and eventually finishes what it has started
MeasureFairness ==
    /\ WF_vars(MeasureSteps \/ OdmrSteps \/ T1Configure \/ RefocusSteps)
    /\ WF_vars(PulseGenerated) /\ WF_vars(PulseSampledAndLoaded) /\ WF_vars(PulseFitted)
    /\ WF_vars(PulseMeasurementToggled) /\ WF_vars(PulseOutputToggled)
    /\ WF_vars(PulseLoaded)
    /\ WF_vars(OptimizerStarted) /\ WF_vars(OptimizerFinished)
    /\ WF_vars(OdmrScanStarted) /\ WF_vars(OdmrScanFinished)

SpecMeasureLive == InitMeasure /\ [][NextMeasure]_vars /\ MeasureFairness

\* a call of refocus
NextRefocus == RefocusSteps \/ RefocusSubsystems

SpecRefocus == InitRefocus /\ [][NextRefocus]_vars

\* a call of refocus under fair scheduling: the orchestrator thread keeps running,
\* and every subsystem eventually carries out a request it has accepted and
\* eventually finishes what it has started
RefocusFairness ==
    /\ WF_vars(RefocusSteps)
    /\ WF_vars(PulseMeasurementToggled) /\ WF_vars(PulseOutputToggled)
    /\ WF_vars(PulseLoaded)
    /\ WF_vars(OptimizerStarted) /\ WF_vars(OptimizerFinished)

SpecRefocusLive == InitRefocus /\ [][NextRefocus]_vars /\ RefocusFairness

(* ------------------------- the target registry ------------------------- *)
Vec3Sub(a, b) == <<a[1] - b[1], a[2] - b[2], a[3] - b[3]>>

\* the list without its element at (1-based) position i
RemoveAt(list, i) == SubSeq(list, 1, i - 1) \o SubSeq(list, i + 1, Len(list))

\* a registration that keeps a target of the same label
AddTargetKeepingOld(list, lbl, position) == Append(list, NVAt(lbl, position))

\* a registration that takes the empty label for no label at all
AddTargetKeepingUnlabeled(list, lbl, position) ==
    Append(IF lbl # "" /\ FindLabel(list, lbl) # 0
           THEN RemoveAt(list, FindLabel(list, lbl))
           ELSE list,
           NVAt(lbl, position))

\* add_nv: delete the first target with this label, append NV(anchor=position)
AddTarget(list, lbl, position) ==
    Append(IF FindLabel(list, lbl) # 0 THEN RemoveAt(list, FindLabel(list, lbl))
           ELSE list,
           NVAt(lbl, position))

\* a removal that takes an unknown label for the first target
RemoveTargetOrFirst(list, kind, lbl, index) ==
    IF kind = "str"
    THEN IF FindLabel(list, lbl) # 0 THEN RemoveAt(list, FindLabel(list, lbl))
         ELSE RemoveAt(list, 1)
    ELSE IF 0 <= index /\ index < Len(list) THEN RemoveAt(list, index + 1) ELSE list

\* a removal that takes a negative index for one counted from the end
RemoveTargetFromEnd(list, kind, lbl, index) ==
    IF kind = "str"
    THEN IF FindLabel(list, lbl) # 0 THEN RemoveAt(list, FindLabel(list, lbl))
         ELSE list
    ELSE IF PyIndex(list, index) # 0 THEN RemoveAt(list, PyIndex(list, index)) ELSE list

\* remove_nv: a str is resolved to the index of the first target with that label
\* (and stays a str when there is none); an int in range(len) is deleted
RemoveTarget(list, kind, lbl, index) ==
    IF kind = "str"
    THEN IF FindLabel(list, lbl) # 0 THEN RemoveAt(list, FindLabel(list, lbl))
         ELSE list
    ELSE IF 0 <= index /\ index < Len(list) THEN RemoveAt(list, index + 1) ELSE list

\* a position setter that stores the new position as the shift
ShiftForIgnoringAnchor(anchor, new_pos) == new_pos

\* NV.position setter: self._shift = new_pos - self._anchor
ShiftFor(anchor, new_pos) == Vec3Sub(new_pos, anchor)

\* NV.x / NV.y / NV.z setters: self._shift[c] = value - self._anchor[c]
WithCoordinate(target, c, value) ==
    [target EXCEPT !.shift[c] = value - target.anchor[c]]

\* NV.x reads self.position[0]; NV.y and NV.z read self._position, an attribute
\* that no NV has
CoordinateRead(target, c) ==
    IF c = 1 THEN [raised |-> "", value |-> Some(Position(target)[1])]
    ELSE [raised |-> "AttributeError", value |-> None]

\* what the operator passes to the registry calls
RegistryLabels == {"", "NV1", "NV2"}
Points == { <<0, 0, 0>>, <<1, 2, 3>> }
ShiftChoices == { <<0, 0, 0>>, <<1, 0, -1>> }
CoordinateChoices == {-1, 5}
\* a sequence that is no triplet
NoTriplet == <<1, 2>>

\* the calibration characterize_nv leaves on a target: rabi_period and t2
CharacterizedCalibration ==
    [odmr_freq |-> None, rabi_period |-> Some(Reciprocal(4)), t2 |-> Some(3),
     t1 |-> None]

\* the registries a session starts from: none, two and three targets built by
\* add_nv, the first of the three characterized
SessionRegistries ==
    InitRegistries \cup
    { <<NewNV(<<0, 0, 0>>, ZeroShift, "NV1", CharacterizedCalibration),
        NVAt("", <<1, 2, 3>>), NVAt("NV2", <<1, 0, 0>>)>> }

\* an operator works on the registry and on its targets
InitRegistry ==
    /\ InitIdle
    /\ entry = "registry" /\ pc = "idle" /\ stack = <<>>
    /\ arg_kind = "str" /\ arg_label = "" /\ arg_index = 0
    /\ exp = "rabi" /\ label = "" /\ kwargs = NoKwargs
    /\ nv_list \in SessionRegistries
    /\ recipes = DefaultRecipes(0)
    /\ refocus_interval = 0
    /\ status = IdleStatus /\ loaded_asset = None

\* what no registry call touches
registryFrame == <<pc, stack, entry, arg_kind, arg_label, arg_index, callVars, charVars,
                   measVars, refVars, polls, recipes, refocus_interval, pulseVars,
                   confVars, now, log, histVars>>

\* one call by the operator: harg records the call, raised and retval its outcome
RegistryCall(call, list, exception, value) ==
    /\ pc = "idle" /\ ops < MaxOps
    /\ ops' = ops + 1
    /\ harg' = call
    /\ nv_list' = list
    /\ raised' = exception /\ retval' = value
    /\ UNCHANGED registryFrame

\* a registration that anchors a target without a position at the origin
AnchorAtOrigin(position, reported) ==
    IF position = None THEN ZeroShift ELSE position

\* if position is None: position = confocallogic().get_position()[:3]
AnchorFor(position, reported) ==
    IF position = None THEN <<reported[1], reported[2], reported[3]>> ELSE position

\* add_nv(label, position); position None is the scanner's current position
AddNv ==
    \E lbl \in RegistryLabels, position \in Points \cup {None} :
        RegistryCall(<<"add_nv", lbl, position>>,
                     AddTarget(nv_list, lbl, AnchorFor(position, scanner)),
                     "", None)

\* remove_nv(index) with a str or an int
RemoveNv ==
    \/ \E lbl \in RegistryLabels \cup {"NV9"} :
         RegistryCall(<<"remove_nv", "str", lbl>>,
                      RemoveTarget(nv_list, "str", lbl, 0), "", None)
    \/ \E index \in -1..3 :
         RegistryCall(<<"remove_nv", "int", index>>,
                      RemoveTarget(nv_list, "int", "", index), "", None)

\* set_sample_shift(shift): for nv in nv_list: nv.shift = shift
SetSampleShift ==
    \E shift \in ShiftChoices :
        RegistryCall(<<"set_sample_shift", shift>>,
                     [k \in 1..Len(nv_list) |-> [nv_list[k] EXCEPT !.shift = shift]],
                     "", None)

\* add_sample_shift(shift): for nv in nv_list: nv.shift = nv.shift + shift
AddSampleShift ==
    \E shift \in ShiftChoices :
        RegistryCall(<<"add_sample_shift", shift>>,
                     [k \in 1..Len(nv_list) |->
                         [nv_list[k] EXCEPT !.shift = Vec3Add(@, shift)]],
                     "", None)

\* nv_list[k].position = new_pos
NvSetPosition ==
    \E k \in 1..Len(nv_list), new_pos \in Points \cup {NoTriplet} :
        IF Len(new_pos) = 3
        THEN RegistryCall(<<"position", k, new_pos>>,
                          [nv_list EXCEPT ![k].shift = ShiftFor(nv_list[k].anchor, new_pos)],
                          "", None)
        ELSE RegistryCall(<<"position", k, new_pos>>, nv_list, "ValueError", None)

\* nv_list[k].anchor = new_pos
NvSetAnchor ==
    \E k \in 1..Len(nv_list), new_pos \in {<<1, 2, 3>>, NoTriplet} :
        IF Len(new_pos) = 3
        THEN RegistryCall(<<"anchor", k, new_pos>>,
                          [nv_list EXCEPT ![k].anchor = new_pos], "", None)
        ELSE RegistryCall(<<"anchor", k, new_pos>>, nv_list, "ValueError", None)

\* nv_list[k].shift = new_shift
NvSetShift ==
    \E k \in 1..Len(nv_list), new_shift \in {<<1, 0, -1>>, NoTriplet} :
        IF Len(new_shift) = 3
        THEN RegistryCall(<<"shift", k, new_shift>>,
                          [nv_list EXCEPT ![k].shift = new_shift], "", None)
        ELSE RegistryCall(<<"shift", k, new_shift>>, nv_list, "ValueError", None)

\* nv_list[k].x = value (c = 1), .y = value (c = 2), .z = value (c = 3)
NvSetCoordinate ==
    \E k \in 1..Len(nv_list), c \in 1..3, value \in CoordinateChoices :
        RegistryCall(<<"set_xyz", k, c, value>>,
                     [nv_list EXCEPT ![k] = WithCoordinate(@, c, value)], "", None)

\* reading nv_list[k].x (c = 1), .y (c = 2), .z (c = 3)
NvGetCoordinate ==
    \E k \in 1..Len(nv_list), c \in 1..3 :
        RegistryCall(<<"get_xyz", k, c>>, nv_list,
                     CoordinateRead(nv_list[k], c).raised,
                     CoordinateRead(nv_list[k], c).value)

\* the attributes of an NV object
NvAttributes == {"_anchor", "_shift", "label", "odmr_freq", "rabi_period", "t2", "t1"}

\* vars(self)
NvVars(t) ==
    [a \in NvAttributes |->
        CASE a = "_anchor" -> t.anchor
          [] a = "_shift" -> t.shift
          [] a = "label" -> t.label
          [] a = "odmr_freq" -> t.odmr_freq
          [] a = "rabi_period" -> t.rabi_period
          [] a = "t2" -> t.t2
          [] a = "t1" -> t.t1]

\* a representation that drops the private attributes and adds the anchor only
GetDictReprWithoutShift(t) ==
    [k \in (DOMAIN NvVars(t) \ {"_anchor", "_shift"}) \cup {"anchor"} |->
        IF k = "anchor" THEN t.anchor ELSE NvVars(t)[k]]

\* NV.get_dict_repr: vars(self) without '_anchor' and '_shift', with 'anchor' and
\* 'shift' read through the properties
GetDictRepr(t) ==
    [k \in (DOMAIN NvVars(t) \ {"_anchor", "_shift"}) \cup {"anchor", "shift"} |->
        CASE k = "anchor" -> t.anchor
          [] k = "shift" -> t.shift
          [] OTHER -> NvVars(t)[k]]

\* kwargs.get(k)
KwargsGet(kw, k) == IF k \in DOMAIN kw THEN kw[k] ELSE None

\* NV(**dict_repr): anchor, shift and label are the named parameters (shift and
\* label with their defaults), every other key goes to **kwargs
NvFromDict(d) ==
    LET kw == [k \in DOMAIN d \ {"anchor", "shift", "label"} |-> d[k]]
    IN  NewNV(d["anchor"],
              IF "shift" \in DOMAIN d THEN d["shift"] ELSE ZeroShift,
              IF "label" \in DOMAIN d THEN d["label"] ELSE "",
              [odmr_freq |-> KwargsGet(kw, "odmr_freq"),
               rabi_period |-> KwargsGet(kw, "rabi_period"),
               t2 |-> KwargsGet(kw, "t2"), t1 |-> KwargsGet(kw, "t1")])

\* [nv.get_dict_repr() for nv in val]
GetNvDictRepr(val) == [i \in 1..Len(val) |-> GetDictRepr(val[i])]

\* [NV(**dict_repr) for dict_repr in val]
CreateNvList(val) == [i \in 1..Len(val) |-> NvFromDict(val[i])]

\* the nv_list StatusVar is saved: get_nv_dict_repr(nv_list)
SaveRegistry ==
    RegistryCall(<<"get_nv_dict_repr">>, nv_list, "", Some(GetNvDictRepr(nv_list)))

\* the nv_list StatusVar is restored from the representation just saved:
\* nv_list = create_nv_list(val)
RestoreRegistry ==
    /\ harg = <<"get_nv_dict_repr">>
    /\ RegistryCall(<<"create_nv_list">>, CreateNvList(retval[1]), "",
                    Some(CreateNvList(retval[1])))

\* a session of registry calls
NextRegistry ==
    \/ AddNv \/ RemoveNv \/ SetSampleShift \/ AddSampleShift
    \/ NvSetPosition \/ NvSetAnchor \/ NvSetShift \/ NvSetCoordinate \/ NvGetCoordinate
    \/ SaveRegistry \/ RestoreRegistry

SpecRegistry == InitRegistry /\ [][NextRegistry]_vars

(* ----------------- the parameter setters and sampling ------------------ *)
\* an operator works with the shared parameters and the sampling helpers
InitHelpers ==
    /\ InitIdle
    /\ entry = "helper" /\ pc = "idle" /\ stack = <<>>
    /\ arg_kind = "str" /\ arg_label = "" /\ arg_index = 0
    /\ exp = "rabi" /\ label = "" /\ kwargs = NoKwargs
    /\ nv_list = <<>>
    /\ recipes = DefaultRecipes(0)
    /\ refocus_interval = 0
    /\ status = IdleStatus /\ loaded_asset = None

\* pulsedmasterlogic().set_generation_parameters(<key>=value), the body of the
\* setters of mw_amplitude, rabi_period, mw_frequency and laser_length
SetGenerationParameter(key, value) ==
    /\ pc = "idle" /\ ops < MaxOps
    /\ ops' = ops + 1
    /\ gen_params' = [gen_params EXCEPT ![key] = Some(value)]
    /\ log' = Logged("set_generation_parameters", key, "")
    /\ UNCHANGED <<pc, stack, entry, arg_kind, arg_label, arg_index, raised, retval,
                   callVars, charVars, measVars, refVars, polls, harg, progVars, status,
                   loaded_asset, meas_q, pulser_q, gen_pending, samp_pending,
                   load_pending, fit_pending, current_fit_param, generated, saved,
                   confVars, now, histVars>>

\* self.mw_amplitude = value
SetMwAmplitude ==
    \E value \in {3} : SetGenerationParameter("microwave_amplitude", value)

\* self.rabi_period = value
SetRabiPeriod ==
    \E value \in {5} : SetGenerationParameter("rabi_period", value)

\* self.mw_frequency = value, a frequency in kHz
SetMwFrequency ==
    \E value \in {2900000} : SetGenerationParameter("microwave_frequency", value)

\* self.laser_length = value
SetLaserLength ==
    \E value \in {30} : SetGenerationParameter("laser_length", value)

\* the operator calls a sampling helper with this asset and with_load
SampleCall(name, kind, with_load) ==
    /\ pc = "idle" /\ ops < MaxOps
    /\ ops' = ops + 1
    /\ harg' = <<name, kind, with_load>>
    /\ polls' = 0
    /\ CallTo("smp_req", "idle")
    /\ UNCHANGED <<entry, arg_kind, arg_label, arg_index, raised, retval, callVars,
                   charVars, measVars, refVars, progVars, pulseVars, confVars, now, log,
                   histVars>>

\* sample_ensemble(name, with_load=False)
CallSampleEnsemble ==
    \E name \in {"rabi"}, with_load \in BOOLEAN :
        SampleCall(name, "PulseBlockEnsemble", with_load)

\* sample_sequence(name, with_load=False)
CallSampleSequence ==
    \E name \in {"seq"}, with_load \in BOOLEAN :
        SampleCall(name, "PulseSequence", with_load)

NextHelpers ==
    \/ SetMwAmplitude \/ SetRabiPeriod \/ SetMwFrequency \/ SetLaserLength
    \/ CallSampleEnsemble \/ CallSampleSequence
    \/ SampleReq \/ SampleWait \/ PulseSampledAndLoaded

SpecHelpers == InitHelpers /\ [][NextHelpers]_vars

(* ------------------------------ properties ----------------------------- *)
\* positions in the request log of the requests `op` with first argument `a`
Requests(op, a) == {i \in 1..Len(log) : log[i].op = op /\ log[i].a = a}

\* the smallest and the largest element of a set of positions, 0 when it is empty
FirstOf(S) == IF S = {} THEN 0 ELSE CHOOSE i \in S : \A j \in S : i <= j
LastOf(S) == IF S = {} THEN 0 ELSE CHOOSE i \in S : \A j \in S : j <= i

RefocusStarts == Requests("start_refocus", "confocalgui")

\* C1: in the accumulation loop of every pulsed measure method, the elapsed time
\* computed right after a refocus cycle (last_refocus - corrected start_time)
\* equals the elapsed time computed right before it (current_time - old
\* start_time).
C1_ElapsedPreserved ==
    [][(pc = "m_after_refocus" /\ pc' = "m_sleep") =>
         last_refocus' - start_time' = current_time - start_time]_vars

\* a refocus cycle interrupted a Hahn-echo accumulation loop and was corrected for
C1_Witness ==
    /\ pc = "m_sleep" /\ exp = "hahnecho"
    /\ last_refocus > start_time /\ t_refocus > 0

\* C2: when the accumulation loop exits, the wall-clock time since the loop began
\* minus the time spent inside refocus cycles is at least the recipe's runtime
\* and exceeds it by less than one tick of the loop.
C2_ActiveTimeMeetsRuntime ==
    pc = "m_off" =>
        /\ now - t_begin - t_refocus >= Runtime
        /\ now - t_begin - t_refocus < Runtime + TickSleep

\* the loop exits after more than one refocus cycle
C2_Witness ==
    /\ pc = "m_off" /\ Runtime > TickSleep
    /\ Cardinality(RefocusStarts) >= 2 /\ t_refocus > 2 * PulserSettle

\* C3: with refocus_interval zero or negative a pulsed measure call never invokes
\* refocus, and its loop exits with the elapsed time within one tick of the
\* runtime.
C3_DisabledNeverRefocuses ==
    refocus_interval <= 0 =>
        /\ RefocusStarts = {}
        /\ pc # "rf_entry" /\ pc # "m_after_refocus"
        /\ \A i \in 1..Len(stack) : stack[i] # "m_after_refocus"
        /\ (pc = "m_off" => /\ now - t_begin >= Runtime
                            /\ now - t_begin < Runtime + TickSleep)

\* a run of several ticks with a zero interval has returned
C3_Witness ==
    /\ refocus_interval = 0 /\ pc = "done" /\ Runtime = MaxRuntime
    /\ now - t_begin >= MaxRuntime

\* C4: when refocus is called while a pulsed measurement is running, the
\* measurement has been resumed (measurement_running is reported again) when
\* refocus returns.
C4_ResumedAtReturn ==
    (pc = "rf_ret" /\ old_asset # None) => status.measurement_running

\* C5: when refocus is called while a pulsed measurement is running, the program
\* loaded when refocus returns is the program (name and kind) that was loaded
\* when it was entered; 'laser_on' is the loaded program in between, from the
\* start of the optimizer to the reload.
C5_ProgramRestored ==
    /\ (pc \in {"rf_ret", "done"} /\ old_asset # None) => loaded_asset = old_asset
    /\ pc \in {"rf_on", "rf_start", "rf_wait_start", "rf_wait_finish", "rf_settle",
               "rf_restore"}
         => loaded_asset = Some(<<"laser_on", "PulseBlockEnsemble">>)

\* refocus returns with a captured pulse sequence loaded again
C5_Witness ==
    /\ pc = "rf_ret" /\ old_asset = Some(<<"seq", "PulseSequence">>)
    /\ loaded_asset = Some(<<"seq", "PulseSequence">>)
    /\ RefocusStarts # {}

GenerateRabi == Requests("generate_predefined_sequence", "rabi")
GenerateHahn == Requests("generate_predefined_sequence", "hahnecho")
SaveRabi == Requests("save_measurement_data", "autoRabi")
SaveHahn == Requests("save_measurement_data", "autoHahnEcho")
PulserOff == Requests("toggle_pulse_generator", "False")

\* characterize_nv has returned its pair of results
Characterized == pc = "done" /\ retval # None

\* C6: characterize_nv on a registered target performs, in this order, a refocus,
\* a Rabi run whose fitted frequency gives the target's rabi_period, then a
\* Hahn-echo run whose fitted lifetime gives the target's t2; when it has
\* returned both fields are set and the results are returned as (Rabi, Hahn).
C6_PipelineOrder ==
    Characterized =>
        /\ 0 < FirstOf(RefocusStarts)
        /\ FirstOf(RefocusStarts) < FirstOf(GenerateRabi)
        /\ FirstOf(GenerateRabi) < FirstOf(SaveRabi)
        /\ FirstOf(SaveRabi) < FirstOf(GenerateHahn)
        /\ FirstOf(GenerateHahn) < FirstOf(SaveHahn)
        /\ Cardinality(GenerateRabi) = 1 /\ Cardinality(GenerateHahn) = 1
        /\ arg_kind = "str" => nv_list[nv].label = arg_label
        /\ nv_list[nv].rabi_period # None /\ nv_list[nv].t2 # None
        /\ nv_list[nv].rabi_period = Some(<<1, rabi_result[1].frequency>>)
        /\ nv_list[nv].t2 = Some(hahn_result[1].lifetime)
        /\ retval = Some(<<rabi_result, hahn_result>>)

\* characterize_nv('NV2') has returned with both calibration values stored
C6_Witness ==
    /\ Characterized /\ arg_kind = "str" /\ arg_label = "NV2"
    /\ nv_list[2].rabi_period = Some(<<1, 4>>) /\ nv_list[2].t2 = Some(3)
    /\ nv_list[1].rabi_period = None

\* C7: with in-run refocus disabled, one characterize_nv call on a registered
\* target performs exactly one refocus cycle in total, and that cycle is finished
\* before the first experiment stage starts.
C7_ExactlyOneRefocus ==
    (refocus_interval <= 0 /\ Characterized) =>
        /\ Cardinality(RefocusStarts) = 1
        /\ FirstOf(PulserOff) < FirstOf(GenerateRabi)

\* C8: the Rabi period measured by the Rabi stage (1 / fitted frequency) is in the
\* shared generation parameters when the Hahn-echo stage generates its program,
\* so that program is generated with the newly measured value.
C8_HahnUsesMeasuredPeriod ==
    /\ (pc = "gen_req" /\ exp = "hahnecho") =>
          /\ rabi_result # None
          /\ gen_params.rabi_period = Some(<<1, rabi_result[1].frequency>>)
    /\ (generated # None /\ generated[1].method = "hahnecho") =>
          generated[1].rabi_period = Some(<<1, rabi_result[1].frequency>>)

\* the Hahn-echo program has been generated with the period of a 4-unit frequency
C8_Witness ==
    /\ generated # None /\ generated[1].method = "hahnecho"
    /\ rabi_result # None /\ rabi_result[1].frequency = 4
    /\ generated[1].rabi_period = Some(<<1, 4>>)

\* C9: if the stage rejects the move to the target, characterize_nv aborts: no
\* refocus is started, no experiment stage is run, the calibration fields stay
\* as they were, and the move is not retried.
C9_AbortsOnRejectedMove ==
    Requests("set_position", "rejected") # {} =>
        /\ RefocusStarts = {}
        /\ GenerateRabi = {} /\ GenerateHahn = {}
        /\ \A k \in 1..Len(nv_list) :
              nv_list[k].rabi_period = None /\ nv_list[k].t2 = None
        /\ Cardinality({i \in 1..Len(log) : log[i].op = "set_position"}) = 1

\* C10: characterize_nv with a string label that no registered target has returns
\* None without raising, issues no request to the scanner, optimizer or pulse
\* subsystems, and changes neither the registry nor any recipe.
C10_UnknownLabelNoEffect ==
    [][(arg_kind = "str" /\ \A k \in 1..Len(nv_list) : nv_list[k].label # arg_label) =>
         /\ nv_list' = nv_list /\ recipes' = recipes
         /\ log' = log /\ pulseVars' = pulseVars /\ confVars' = confVars
         /\ raised' = "" /\ retval' = None
         /\ pc' \in {"ch_lookup", "done"}]_vars

\* the lookup of 'NV9' in a registry of two other targets has returned
C10_Witness ==
    /\ pc = "done" /\ arg_kind = "str" /\ arg_label = "NV9" /\ Len(nv_list) = 2
    /\ retval = None /\ raised = "" /\ log = <<>>

\* C11: characterize_nv with an integer index that designates no registered
\* target (index >= number of targets, any index on an empty registry) ends in
\* the not-found outcome: it returns None without raising and without issuing a
\* request to any subsystem.
C11_OutOfRangeIndexNotFound ==
    (arg_kind = "int" /\ arg_index >= Len(nv_list)) =>
        /\ raised = "" /\ retval = None
        /\ log = <<>>

\* the measure methods that have a recipe StatusVar
RecipeTypes == PulsedTypes \cup {"odmr"}

\* C12: a measure call with an override whose key is not a key of the stored
\* recipe of its experiment type leaves that recipe unchanged: no key is added
\* and no value changes.
C12_UnknownKeyLeavesRecipe ==
    [][(exp \in RecipeTypes /\ kwargs # NoKwargs /\ \A k \in DOMAIN kwargs :
             k \notin DOMAIN recipes[RecipeName(exp)]) =>
         recipes'[RecipeName(exp)] = recipes[RecipeName(exp)]]_vars

\* the running measure method is past the merge of its overrides
OverridesMerged == pc # "m_config"

\* C13: once a measure call has configured itself, every override whose key
\* exists in the stored recipe of its experiment type is stored in that recipe
\* and is what the generated program is built from; the other keys keep their
\* values.
C13_KnownKeyStored ==
    (entry = "measure" /\ exp \in PulsedTypes /\ kwargs # NoKwargs /\ OverridesMerged) =>
        \A k \in DOMAIN DefaultRecipes(0)[RecipeName(exp)] :
            IF k \in DOMAIN kwargs
            THEN recipes[RecipeName(exp)][k] = kwargs[k]
            ELSE recipes[RecipeName(exp)][k] = DefaultRecipes(0)[RecipeName(exp)][k]

\* C14: each experiment type has a stored recipe of its own: a measure call of
\* one type never changes the recipe that another experiment type uses.
C14_OtherRecipesUntouched ==
    [][\A e \in PulsedTypes \ {exp} :
          recipes'[RecipeName(e)] = recipes[RecipeName(e)]]_vars

\* the shared generation parameter an override key stands for
SharedParameter(k) ==
    CASE k = "amplitude" -> "microwave_amplitude"
      [] k = "frequency" -> "microwave_frequency"
      [] k = "rabi_period" -> "rabi_period"

\* C15: when a pulsed measure method requests the generation of its program,
\* every shared parameter present in the overrides (microwave amplitude,
\* microwave frequency, Rabi period) has been written to the shared generation
\* parameters, and the absent ones are as they were.
C15_SharedParametersWritten ==
    (entry = "measure" /\ pc = "gen_req") =>
        \A k \in {"amplitude", "frequency", "rabi_period"} :
            IF k \in DOMAIN kwargs
            THEN gen_params[SharedParameter(k)] = Some(kwargs[k])
            ELSE gen_params[SharedParameter(k)] =
                   IF k = "frequency" THEN Some(DefaultMwFrequency) ELSE None

\* the latest registry call, when there has been one
LastCall(name) == entry = "registry" /\ harg # <<>> /\ harg[1] = name

\* C16: add_nv with the label of a registered target replaces that target (the
\* new target, anchored at the given position with a zero shift, is the only one
\* with the label), and after any sequence of add_nv, remove_nv,
\* set_sample_shift and add_sample_shift calls no two targets share a label.
C16_LabelsUnique ==
    /\ \A i, j \in 1..Len(nv_list) : nv_list[i].label = nv_list[j].label => i = j
    /\ LastCall("add_nv") =>
          /\ nv_list # <<>>
          /\ nv_list[Len(nv_list)].label = harg[2]
          /\ nv_list[Len(nv_list)].shift = <<0, 0, 0>>
          /\ harg[3] # None => nv_list[Len(nv_list)].anchor = harg[3]
          /\ Cardinality({k \in 1..Len(nv_list) : nv_list[k].label = harg[2]}) = 1

\* add_nv('NV1', (1, 2, 3)) has replaced the first of three targets
C16_Witness ==
    /\ LastCall("add_nv") /\ harg[2] = "NV1" /\ ops = 1
    /\ Len(nv_list) = 3 /\ nv_list[3].label = "NV1" /\ nv_list[3].anchor = <<1, 2, 3>>
    /\ nv_list[1].label = "" /\ nv_list[2].label = "NV2"

\* C17: remove_nv with a str label does not raise; when no target has the label
\* the registry is unchanged, otherwise exactly the target with the label is
\* removed and the others keep their order.
C17_RemoveByLabel ==
    [][(ops' = ops + 1 /\ harg'[1] = "remove_nv" /\ harg'[2] = "str") =>
         /\ raised' = ""
         /\ nv_list' = SelectSeq(nv_list, LAMBDA t : t.label # harg'[3])
         /\ (\A k \in 1..Len(nv_list) : nv_list[k].label # harg'[3]) =>
               nv_list' = nv_list
         /\ (\E k \in 1..Len(nv_list) : nv_list[k].label = harg'[3]) =>
               Len(nv_list') = Len(nv_list) - 1]_vars

\* remove_nv('NV9') has returned on a registry of three other targets
C17_Witness ==
    /\ LastCall("remove_nv") /\ harg[2] = "str" /\ harg[3] = "NV9" /\ ops = 1
    /\ Len(nv_list) = 3 /\ nv_list[1].label = "NV1" /\ raised = ""

\* C18: a target's position is anchor + shift; the position setter makes the
\* position the given one, set_sample_shift(s) makes every shift s,
\* add_sample_shift(s) adds s to every shift, and no call but the anchor setter
\* and add_nv/remove_nv changes an anchor.
C18_PositionIsAnchorPlusShift ==
    [][ops' = ops + 1 =>
         /\ \A k \in 1..Len(nv_list') :
               \A c \in 1..3 : Position(nv_list'[k])[c]
                                 = nv_list'[k].anchor[c] + nv_list'[k].shift[c]
         /\ (harg'[1] = "position" /\ raised' = "") =>
               Position(nv_list'[harg'[2]]) = harg'[3]
         /\ harg'[1] = "set_sample_shift" =>
               /\ Len(nv_list') = Len(nv_list)
               /\ \A k \in 1..Len(nv_list) : nv_list'[k].shift = harg'[2]
         /\ harg'[1] = "add_sample_shift" =>
               /\ Len(nv_list') = Len(nv_list)
               /\ \A k \in 1..Len(nv_list) :
                     nv_list'[k].shift = Vec3Add(nv_list[k].shift, harg'[2])
         /\ harg'[1] \in {"position", "shift", "set_xyz", "get_xyz",
                          "set_sample_shift", "add_sample_shift"} =>
               /\ Len(nv_list') = Len(nv_list)
               /\ \A k \in 1..Len(nv_list) : nv_list'[k].anchor = nv_list[k].anchor]_vars

\* the position of a target anchored off the origin was set, then every target
\* was shifted
C18_Witness ==
    /\ LastCall("add_sample_shift") /\ harg[2] = <<1, 0, -1>> /\ ops = 2
    /\ Len(nv_list) = 3 /\ nv_list[2].anchor = <<1, 2, 3>>
    /\ nv_list[2].shift = <<0, -2, -4>> /\ Position(nv_list[2]) = <<1, 0, -1>>

\* C19: reading the x, y or z coordinate of a target succeeds and returns that
\* component of anchor + shift.
C19_CoordinateReadsSucceed ==
    LastCall("get_xyz") =>
        /\ raised = ""
        /\ retval = Some(nv_list[harg[2]].anchor[harg[3]] + nv_list[harg[2]].shift[harg[3]])

MeasurementStarts == Requests("toggle_pulsed_measurement", "True")

\* C20: when characterize_nv, or a pulsed measure method it runs, has ended (by
\* the return after saving, or by an exception raised after the measurement was
\* started) the pulse subsystem does not have the measurement running.
C20_NotLeftRunning ==
    (pc \in {"done", "raised", "ch_store_rabi", "ch_store_t2"}
       /\ MeasurementStarts # {}) => ~status.measurement_running

\* the requests the pulse subsystem has accepted and not yet carried out
Outstanding ==
    Len(meas_q) + Len(pulser_q)
    + Cardinality({q \in {"gen", "samp", "load", "fit"} :
                      CASE q = "gen" -> gen_pending # None
                        [] q = "samp" -> samp_pending # None
                        [] q = "load" -> load_pending # None
                        [] q = "fit" -> fit_pending # None})

\* C21: the orchestrator never issues the sample-and-load request while program
\* generation is outstanding, never issues the measurement start while
\* sampling/loading is outstanding, and at most one request is outstanding on
\* the pulse subsystem at any time.
C21_OneOutstandingRequest ==
    /\ pc = "smp_req" => gen_pending = None
    /\ pc = "on_req" => samp_pending = None
    /\ Outstanding <= 1

\* the positions in the request log of the stages of a measure call
StageGenerate == {i \in 1..Len(log) : log[i].op = "generate_predefined_sequence"}
StageSample == {i \in 1..Len(log) : log[i].op = "sample_ensemble"}
StageStart == {i \in 1..Len(log) : log[i].op = "toggle_pulsed_measurement"
                                     /\ log[i].a = "True" /\ log[i].b = ""}
StageStop == {i \in 1..Len(log) : log[i].op = "toggle_pulsed_measurement"
                                    /\ log[i].a = "False" /\ log[i].b = ""}
StageFit == {i \in 1..Len(log) : log[i].op = "do_fit" /\ log[i].a # "No fit"}
StagePersist == {i \in 1..Len(log) : log[i].op = "save_measurement_data"}

\* stage B was requested at most once, and only after stage A was
Follows(A, B) ==
    /\ Cardinality(B) <= 1
    /\ B # {} => (A # {} /\ FirstOf(A) < FirstOf(B))

StagesInOrder ==
    /\ Cardinality(StageGenerate) <= 1
    /\ Follows(StageGenerate, StageSample) /\ Follows(StageSample, StageStart)
    /\ Follows(StageStart, StageStop) /\ Follows(StageStop, StageFit)
    /\ Follows(StageFit, StagePersist)

\* C22: a pulsed measure method requests generate, sample-and-load, start, stop,
\* fit and persist once each and in this order, accumulating between start and
\* stop; it takes start_time only when the subsystem reports measurement_running,
\* leaves the stop wait only when the subsystem reports the measurement not
\* running, and leaves the fit wait for the persist request only when
\* fitting_busy is reported false.
C22_LifecycleOrder ==
    [][/\ StagesInOrder'
       /\ (exp \in PulsedTypes /\ pc' = "done") =>
                        \A S \in {StageGenerate', StageSample', StageStart',
                                    StageStop', StageFit', StagePersist'} :
                             Cardinality(S) = 1
       /\ pc' \in {"m_loop", "m_sleep", "m_after_refocus"} =>
             (StageStart' # {} /\ StageStop' = {})
       /\ (pc = "m_init" /\ pc' = "m_loop") =>
             (status.measurement_running /\ start_time' = now)
       /\ (pc = "off_wait" /\ pc' = "m_fit") => ~status.measurement_running
       /\ (pc = "fit_wait" /\ pc' = "m_save") => ~status.fitting_busy]_vars

\* an XY8 run of several ticks, interrupted by a refocus cycle, has persisted
C22_Witness ==
    /\ pc = "done" /\ exp = "xy8" /\ Runtime = MaxRuntime
    /\ RefocusStarts # {} /\ StagePersist # {}

\* refocus is past its two waits for the optimizer: it sleeps, disables the pulse
\* output, reloads, resumes or returns
PastOptimizerWait ==
    \/ pc \in {"rf_settle", "rf_restore", "rf_continue", "rf_ret"}
    \/ pc \in {"tpg_req", "tpg_wait", "tpg_settle"} /\ Head(stack) = "rf_restore"
    \/ pc \in {"ld_req", "ld_wait"} /\ Head(stack) = "rf_continue"
    \/ pc \in {"ct_req", "ct_wait"} /\ Head(stack) = "rf_ret"

\* C23: refocus leaves its first wait only when the optimizer is observed busy and
\* its second only when it is observed not busy; whenever refocus is past the
\* waits (disabling the pulse output, reloading the program) the optimizer has
\* taken up the request and has finished.
C23_PastWaitOnlyWhenFinished ==
    [][/\ (pc = "rf_wait_start" /\ pc' = "rf_wait_finish") => opt_state = "locked"
       /\ (pc = "rf_wait_finish" /\ pc' = "rf_settle") => opt_state # "locked"
       /\ PastOptimizerWait' => (opt_state' = "idle" /\ ~opt_pending')
       /\ (pc' = "tpg_req" /\ harg' = <<"False">>) => PastOptimizerWait']_vars

\* refocus reloads the captured program after a wait loop has slept
C23_Witness ==
    /\ pc = "ld_req" /\ Head(stack) = "rf_continue" /\ old_asset # None
    /\ opt_state = "idle" /\ ~opt_pending /\ polls = MaxPolls /\ RefocusStarts # {}

LaserOn == Some(<<"laser_on", "PulseBlockEnsemble">>)

\* the return labels of refocus calls on the stack, and refocus's own positions
RefocusFrames ==
    Cardinality({i \in 1..Len(stack) : stack[i] \in {"rf_getpos", "rf_on", "rf_start",
                                                     "rf_restore", "rf_continue",
                                                     "rf_ret"}})

\* C24: while the auto-focus routine started by refocus is running, no pulsed
\* measurement is running and the loaded program is 'laser_on'; the auto-focus is
\* started only with the measurement reported not running, and refocus is never
\* entered from inside a refocus cycle.
C24_QuietDuringAutofocus ==
    /\ opt_state = "locked" =>
          (~status.measurement_running /\ loaded_asset = LaserOn)
    /\ pc = "rf_start" => ~status.measurement_running
    /\ pc = "rf_entry" => RefocusFrames = 0
    /\ RefocusFrames <= 1

LoadLaserOn == Requests("load_ensemble", "laser_on")
PulserOn == Requests("toggle_pulse_generator", "True")
ProgramReloads ==
    {i \in 1..Len(log) : log[i].op \in {"load_ensemble", "load_sequence"}
                         /\ log[i].a # "laser_on"}
Resumes == {i \in 1..Len(log) : log[i].op = "toggle_pulsed_measurement"
                                  /\ log[i].a = "True" /\ log[i].b = "paused_measurement"}

\* C25: a refocus cycle captures the scanner coordinates, loads 'laser_on',
\* enables the pulse output (confirmed running), starts the auto-focus anchored
\* at the captured coordinates, waits for it, disables the pulse output
\* (confirmed stopped) and only then reloads the captured program and resumes;
\* the pulse output is enabled whenever the auto-focus runs.
C25_RefocusStepOrder ==
    /\ Cardinality(LoadLaserOn) <= 1 /\ Follows(LoadLaserOn, PulserOn)
    /\ Follows(PulserOn, RefocusStarts) /\ Follows(RefocusStarts, PulserOff)
    /\ Follows(PulserOff, ProgramReloads) /\ Follows(ProgramReloads, Resumes)
    /\ pc = "rf_start" => (status.pulser_running /\ loaded_asset = LaserOn)
    /\ (opt_pending \/ opt_state = "locked") =>
          (status.pulser_running /\ opt_anchor = Some(scanner_pos))
    /\ pc = "rf_restore" => ~status.pulser_running
    /\ (pc = "rf_ret" /\ old_asset # None) => (ProgramReloads # {} /\ Resumes # {})

\* a cycle entered with a measurement running has reloaded and resumed
C25_Witness ==
    /\ pc = "rf_ret" /\ old_asset = Some(<<"rabi", "PulseBlockEnsemble">>)
    /\ Resumes # {} /\ ~status.pulser_running /\ opt_state = "idle"

\* C26: with a positive refocus_interval the accumulation loop starts a refocus at
\* a tick if and only if now - last_refocus >= refocus_interval at that tick,
\* last_refocus being the measurement start or the end of the previous in-run
\* refocus; a run whose runtime is shorter than the interval starts none.
C26_RefocusIffDue ==
    [][/\ (pc = "m_loop" /\ pc' # "m_loop" /\ refocus_interval > 0) =>
             (pc' = "rf_entry" <=> (/\ now - start_time < Runtime
                                    /\ now - last_refocus >= refocus_interval))
       /\ last_refocus' # last_refocus =>
             /\ last_refocus' = now
             /\ \/ pc = "m_init" /\ pc' = "m_loop"
                \/ pc = "m_after_refocus" /\ pc' = "m_sleep"
       /\ (pc = "m_after_refocus" /\ pc' = "m_sleep") => last_refocus' = now
       /\ (exp \in PulsedTypes /\ refocus_interval' > 0 /\ Runtime' < refocus_interval') =>
             RefocusStarts' = {}]_vars

\* with an interval of exactly one tick the loop has started its second refocus
C26_Witness ==
    /\ refocus_interval = TickSleep /\ pc = "rf_entry" /\ Runtime = MaxRuntime
    /\ Cardinality(RefocusStarts) = 1 /\ now - last_refocus = TickSleep

\* C27: every measure_xy8 call persists its data under a tag that contains the
\* XY8 pulse order of the recipe, whether or not a target label is given.
C27_XY8TagHasOrder ==
    \A i \in 1..Len(saved) :
        saved[i].tag.prefix = "autoXY8" => saved[i].tag.order = Some(recipes.xy8.order)

\* the tags under which the running call has persisted data so far
PersistedTags ==
    [i \in 1..Len(saved) |-> saved[i].tag] \o [i \in 1..Len(odmr_saved) |-> odmr_saved[i].tag]

\* the call of the measure method has ended, by returning or by raising
CallEnded == entry = "measure" /\ pc \in {"done", "raised"}

\* C28: every measure method persists its data exactly once per call, under a tag
\* derived from its experiment type and suffixed with the target label if and
\* only if a non-empty label was given; two different experiment types never
\* produce the same tag for the same label.
C28_PersistsOnceUnderTypeTag ==
    /\ Len(PersistedTags) <= 1
    /\ CallEnded => Len(PersistedTags) = 1
    /\ \A i \in 1..Len(PersistedTags) :
          /\ PersistedTags[i].prefix = TagPrefix(exp)
          /\ PersistedTags[i].label = IF label # "" THEN Some(label) ELSE None
    /\ \A e1, e2 \in MeasureTypes, lbl \in {"", "NV1"} :
          e1 # e2 => SaveTag(e1, lbl, recipes.xy8.order) # SaveTag(e2, lbl, recipes.xy8.order)

\* the target the latest add_nv call has created
Created == nv_list[Len(nv_list)]

\* C29: a target created by add_nv has shift (0,0,0), all calibration values
\* (odmr_freq, rabi_period, t1, t2) unset, and its anchor is the given position
\* or, when no position is given, the first three coordinates the scanner reports
\* at that moment; so its position equals its anchor.
C29_CreatedTargetIsFresh ==
    LastCall("add_nv") =>
        /\ nv_list # <<>>
        /\ Created.label = harg[2]
        /\ Created.shift = <<0, 0, 0>>
        /\ Created.odmr_freq = None /\ Created.rabi_period = None
        /\ Created.t1 = None /\ Created.t2 = None
        /\ harg[3] # None => Created.anchor = harg[3]
        /\ harg[3] = None => Created.anchor = <<scanner[1], scanner[2], scanner[3]>>
        /\ Position(Created) = Created.anchor

\* add_nv('NV2') without a position, the scanner reporting (2, 2, 2, 0), as the
\* last call of a session
C29_Witness ==
    /\ LastCall("add_nv") /\ harg[2] = "NV2" /\ harg[3] = None /\ ops = MaxOps
    /\ Created.label = "NV2" /\ Created.anchor = <<2, 2, 2>>
    /\ Created.shift = <<0, 0, 0>>

\* C30: after a refocus cycle has returned, the scanner is at the coordinates
\* captured at the start of the cycle, whatever position the auto-focus routine
\* moved it to during the cycle.
C30_ScannerRestored ==
    (entry = "refocus" /\ pc = "done") => scanner = scanner_pos

\* C31: with the auto-focus routine an independent process that, once started,
\* becomes busy and later idle on its own clock, every refocus cycle eventually
\* returns under fair scheduling, also when the whole busy phase of the routine
\* falls between two polls of the orchestrator (stated for a cycle entered with
\* no measurement running, which has nothing to pause or resume).
C31_RefocusReturns ==
    (pc = "rf_entry" /\ ~status.measurement_running) ~> (pc = "done")

\* the accumulated time the loop test compares with the runtime
Accumulated == now - start_time

\* every in-run refocus cycle that is entered returns to the accumulation loop
EachRefocusReturns == (pc = "rf_entry") ~> (pc = "m_after_refocus")

\* C32: for every finite runtime and every positive refocus_interval, also one
\* shorter than the tick of the loop (a refocus is due at every tick), the
\* accumulation loop of a pulsed measure method terminates provided each refocus
\* cycle returns: at every loop test the accumulated time is a whole number of
\* tick sleeps, however long the refocus cycles took, and it never passes the
\* runtime by a whole tick.
C32_AccumulationTerminates ==
    /\ []((exp \in PulsedTypes /\ pc = "m_loop") =>
             /\ Accumulated % TickSleep = 0
             /\ Accumulated = now - t_begin - t_refocus
             /\ Accumulated < Runtime + TickSleep)
    /\ EachRefocusReturns =>
          ((pc = "m_loop" /\ refocus_interval > 0) ~> (pc = "m_off"))

\* a run of several ticks with an interval shorter than the tick has left the
\* loop after two refocus cycles
C32_Witness ==
    /\ pc = "m_off" /\ refocus_interval > 0 /\ refocus_interval < TickSleep
    /\ Runtime > TickSleep /\ Cardinality(RefocusStarts) = 2
    /\ Accumulated >= Runtime

\* the pause, resume and start requests issued so far
MeasurementToggles == {i \in 1..Len(log) : log[i].op = "toggle_pulsed_measurement"}

\* C33: refocus called while no pulsed measurement is running captures no
\* program, never requests a pause, a resume or a start of a measurement, and
\* returns with the pulse output disabled and the 'laser_on' program still
\* loaded: the program that was loaded before the call is not restored.
C33_IdleRefocusLeavesLaserOn ==
    /\ [][(entry = "refocus" /\ pc = "rf_entry" /\ ~status.measurement_running) =>
             (old_asset' = None /\ pc' = "rf_getpos")]_vars
    /\ []((entry = "refocus" /\ pc # "rf_entry" /\ old_asset = None) =>
             /\ MeasurementToggles = {} /\ meas_q = <<>>
             /\ ~status.measurement_running
             /\ pc = "done" => /\ ~status.pulser_running /\ pulser_q = <<>>
                                /\ loaded_asset = LaserOn /\ load_pending = None)

\* refocus, called with 'rabi' loaded and no measurement running, has returned
C33_Witness ==
    /\ entry = "refocus" /\ pc = "done" /\ old_asset = None
    /\ RefocusStarts # {} /\ LoadLaserOn # {} /\ ProgramReloads = {}
    /\ loaded_asset = LaserOn /\ ~status.pulser_running

\* C34: measure_t1_exponential merges the caller's overrides into a stored T1
\* recipe and then runs the lifecycle of the other pulsed experiments (generate,
\* sample and load, start, accumulate, stop, fit, persist) and returns the fit
\* result: the call does not raise, and once it is past its configuration the
\* program generation has been requested.
C34_T1RunsLifecycle ==
    (entry = "measure" /\ exp = "t1_exponential") =>
        /\ raised = ""
        /\ pc # "t1_config" => StageGenerate # {}
        /\ pc = "done" => (StagePersist # {} /\ StageFit # {})

\* the positions in the request log of the steps of measure_odmr
SweepConfigured == {i \in 1..Len(log) : log[i].op = "set_sweep_parameters"}
SweepRuntimeSet == {i \in 1..Len(log) : log[i].op = "set_runtime"}
SweepStarted == {i \in 1..Len(log) : log[i].op = "start_odmr_scan"}
SweepFitted == {i \in 1..Len(log) : log[i].op = "odmr_do_fit"}
SweepPersisted == {i \in 1..Len(log) : log[i].op = "save_odmr_data"}

\* the keys of the resonance recipe that measure_odmr rewrites
SweepKeys == {"start", "stop", "step", "power", "runtime"}

\* C35: measure_odmr enables the pulse output (confirmed running) before it
\* configures and starts the resonance sweep, requests the fit only after it has
\* observed the sweep subsystem to leave idle and then to leave its running state,
\* persists after the fit and disables the pulse output (confirmed stopped)
\* before returning; the stored start, stop, step, power and runtime of the
\* resonance recipe are overwritten with the values the sweep subsystem answers.
C35_SweepLifecycle ==
    [][exp = "odmr" =>
         /\ Follows(PulserOn, SweepConfigured)' /\ Follows(SweepConfigured, SweepRuntimeSet)'
         /\ Follows(SweepRuntimeSet, SweepStarted)' /\ Follows(SweepStarted, SweepFitted)'
         /\ Follows(SweepFitted, SweepPersisted)'
         /\ Follows(SweepPersisted, PulserOff)'
         /\ pc = "od_config" => (status.pulser_running /\ pulser_q = <<>>)
         /\ (pc = "od_wait_start" /\ pc' = "od_wait_finish") => odmr_state # "idle"
         /\ (pc = "od_wait_finish" /\ pc' = "od_fit") => odmr_state # "locked"
         /\ (pc = "od_fit" /\ pc' # "od_fit") => odmr_state = "idle"
         /\ (pc = "od_config" /\ pc' # "od_config") =>
               /\ odmr_settings' # None
               /\ \A k \in SweepKeys : recipes'.odmr[k] = odmr_settings'[1][k]
         /\ pc' = "done" =>
               /\ ~status'.pulser_running /\ pulser_q' = <<>>
               /\ SweepPersisted' # {} /\ PulserOff' # {}
               /\ fit_result' = odmr_fit' /\ fit_result' # None]_vars

\* measure_odmr(power=-10) has returned: the stored power is the one the sweep
\* subsystem answered with, not the one requested
C35_Witness ==
    /\ entry = "measure" /\ exp = "odmr" /\ pc = "done"
    /\ kwargs = Kwarg("power", -10) /\ recipes.odmr.power = SweepPowerLimit
    /\ odmr_saved # <<>> /\ ~status.pulser_running

\* the positions of the targets without a label
Unlabeled(list) == {i \in 1..Len(list) : list[i].label = ""}

\* the targets that have a label, in their order
Labeled(list) == SelectSeq(list, LAMBDA t : t.label # "")

\* C36: the registry holds at most one target whose label is empty: add_nv with
\* the default (empty) label takes an unlabeled target for a label collision and
\* replaces it, so after registering two targets without labels only the second
\* is left.
C36_OneUnlabeledTarget ==
    /\ [](Cardinality(Unlabeled(nv_list)) <= 1)
    /\ [][(LastCall("add_nv")' /\ ops' = ops + 1 /\ harg'[2] = "") =>
             /\ Unlabeled(nv_list') = {Len(nv_list')}
             /\ Labeled(nv_list') = Labeled(nv_list)
             /\ Len(nv_list') = Len(Labeled(nv_list)) + 1
             /\ nv_list'[Len(nv_list')].anchor = AnchorFor(harg'[3], scanner)]_vars

\* add_nv() on a registry whose second target is unlabeled at (1, 2, 3): the new
\* unlabeled target at the scanner position is the last of three
C36_Witness ==
    /\ LastCall("add_nv") /\ harg[2] = "" /\ harg[3] = None /\ ops = 1
    /\ Len(nv_list) = 3 /\ nv_list[1].label = "NV1" /\ nv_list[2].label = "NV2"
    /\ nv_list[3].label = "" /\ nv_list[3].anchor = <<2, 2, 2>>

\* C37: remove_nv with an integer index i removes exactly the i-th target and
\* keeps all others in their relative order when 0 <= i < number of targets, and
\* leaves the registry unchanged without raising for every other integer
\* (negative or too large); add_nv always places the new target last and keeps
\* the relative order of the remaining targets.
C37_RemoveByIndexKeepsOrder ==
    [][/\ (ops' = ops + 1 /\ harg'[1] = "remove_nv" /\ harg'[2] = "int") =>
             /\ raised' = ""
             /\ IF 0 <= harg'[3] /\ harg'[3] < Len(nv_list)
                THEN /\ Len(nv_list') = Len(nv_list) - 1
                     /\ \A k \in 1..Len(nv_list') :
                           nv_list'[k] = IF k <= harg'[3] THEN nv_list[k]
                                         ELSE nv_list[k + 1]
                ELSE nv_list' = nv_list
       /\ (ops' = ops + 1 /\ harg'[1] = "add_nv") =>
             /\ nv_list' # <<>>
             /\ nv_list'[Len(nv_list')].label = harg'[2]
             /\ SubSeq(nv_list', 1, Len(nv_list') - 1)
                  = SelectSeq(nv_list, LAMBDA t : t.label # harg'[2])]_vars

\* remove_nv(-1) has returned on a registry of three targets, all still there
C37_Witness ==
    /\ LastCall("remove_nv") /\ harg[2] = "int" /\ harg[3] = -1 /\ ops = 1
    /\ Len(nv_list) = 3 /\ nv_list[3].label = "NV2" /\ raised = ""

\* the two targets agree in anchor, shift, label and calibration values
SameTarget(a, b) ==
    /\ a.anchor = b.anchor /\ a.shift = b.shift /\ a.label = b.label
    /\ a.odmr_freq = b.odmr_freq /\ a.rabi_period = b.rabi_period
    /\ a.t1 = b.t1 /\ a.t2 = b.t2

\* C38: saving and restoring the registry is a round trip: for every list of
\* targets, create_nv_list(get_nv_dict_repr(list)) has the same length and order,
\* and each of its targets has the anchor, shift, label and calibration values
\* (odmr_freq, rabi_period, t1, t2) of the original.
C38_RegistryRoundTrip ==
    /\ [](/\ Len(CreateNvList(GetNvDictRepr(nv_list))) = Len(nv_list)
          /\ \A k \in 1..Len(nv_list) :
                SameTarget(CreateNvList(GetNvDictRepr(nv_list))[k], nv_list[k]))
    /\ [][(ops' = ops + 1 /\ harg'[1] = "create_nv_list") =>
             /\ Len(nv_list') = Len(nv_list)
             /\ \A k \in 1..Len(nv_list) : SameTarget(nv_list'[k], nv_list[k])]_vars

\* a registry of three shifted targets, the first one characterized, has been
\* saved and restored
C38_Witness ==
    /\ LastCall("create_nv_list") /\ ops = 3 /\ Len(nv_list) = 3
    /\ nv_list[1].label = "NV1" /\ nv_list[1].rabi_period = Some(Reciprocal(4))
    /\ nv_list[1].t2 = Some(3) /\ nv_list[1].shift # ZeroShift
    /\ nv_list[3].label = "NV2"

==============================================================================
